---- MODULE Spec2Model ----
(***************************************************************************)
(* Call-tree reconstruction and flame layout of the flamegraph profiler.   *)
(*                                                                         *)
(*   Spec         addStackToTree calls on a fresh root, then flattenFrames *)
(*   SpecParse    one call of parseTracesOutput, a line per step           *)
(*   SpecProfile  one profile-app request, an external command per step    *)
(*   SpecTwo      two profile-app requests sharing the event loop and /tmp  *)
(*   SpecColour   one pick-colour request                                   *)
(*   SpecUi       tool results arriving at the flamegraph, flight or       *)
(*                weather UI                                               *)
(*   SpecRecent   colours selected and confirmed in the colour picker UI   *)
(*                                                                         *)
(* A ProfileFrame tree is kept as an arena: a sequence of nodes, node 1    *)
(* the root, each node holding its name, its value and the indices of its  *)
(* children in insertion order.  hasChildren is FALSE for a frame whose    *)
(* `children` property is absent.                                          *)
(*                                                                         *)
(* x and width are JavaScript numbers in the source; here they are exact   *)
(* fractions [num, den] in lowest terms, so equalities claimed "within     *)
(* floating-point tolerance" are checked exactly.                          *)
(***************************************************************************)
EXTENDS Integers, Sequences, FiniteSets, TLC

VARIABLES
    nodes,          \* the ProfileFrame tree under construction / returned
    merged,         \* history: the [stack, samples] pairs given to addStackToTree
    flat,           \* the FlatFrame[] computed by flattenFrames, <<>> before
    pc,             \* position of the run: "build", "parse", "parsed", "laid", ...
    text,           \* parseTracesOutput: its argument tracesOutput
    lines,          \* parseTracesOutput: tracesOutput.split("\n")
    lineNo,         \* parseTracesOutput: index of the next line of the for-loop
    currentStack,   \* parseTracesOutput: frame names since the last flush
    currentSamples, \* parseTracesOutput: weight of the next flushed stack
    profileType,    \* profileGoApp: its argument, "cpu" or "heap"
    topOutput,      \* profileGoApp: what go tool pprof -top prints
    topFunctions,   \* profileGoApp: its local topFunctions
    totalSamples,   \* profileGoApp: its local totalSamples
    files,          \* the temporary files of the request that exist in /tmp
    execs,          \* history: the external commands run and how each ended
    result,         \* the ProfileData returned, NoResult before
    appPath,        \* profileGoApp: its argument appPath
    toolResult,     \* the CallToolResult of the profile-app handler
    requests,       \* SpecTwo: the locals of each of the two requests
    tmp,            \* SpecTwo: the files that exist in /tmp
    clock,          \* SpecTwo: Date.now()
    running,        \* SpecTwo: the request that holds the main thread, or 0
    allocated,      \* SpecTwo: how many ProfileFrame objects exist
    initialColour,  \* pick-colour: args.initialColour, or Absent
    picked,         \* pick-colour: the structuredContent returned
    app,            \* SpecUi: the UI that runs, "flame", "flight" or "weather"
    received,       \* SpecUi: the toolResult prop of the inner component
    data,           \* SpecUi: the state profileData / flightData / weatherData
    errorMsg,       \* SpecUi: the state errorMsg
    displayUnits,   \* SpecUi: the state displayUnits of the weather UI
    pickerHex,      \* SpecRecent: the derived value hex of the colour picker
    recentColours,  \* SpecRecent: the state recentColours
    confirmed       \* SpecRecent: history, the colours confirmed so far

treeVars == <<nodes, merged, flat>>
parseVars == <<text, lines, lineNo, currentStack, currentSamples>>
profVars ==
    <<profileType, topOutput, topFunctions, totalSamples, files, execs, result,
      appPath, toolResult>>
twoVars == <<requests, tmp, clock, running, allocated>>
colourVars == <<initialColour, picked>>
uiVars == <<app, received, data, errorMsg, displayUnits>>
recentVars == <<pickerHex, recentColours, confirmed>>
restVars == <<twoVars, colourVars, uiVars, recentVars>>
vars ==
    <<nodes, merged, flat, pc, text, lines, lineNo, currentStack, currentSamples,
      profileType, topOutput, topFunctions, totalSamples, files, execs, result,
      appPath, toolResult, requests, tmp, clock, running, allocated,
      initialColour, picked, app, received, data, errorMsg, displayUnits,
      pickerHex, recentColours, confirmed>>

(***************************************************************************)
(* Bounds of the model.  Spec merges up to MaxMerges stacks of one or two  *)
(* names (the parser never merges an empty stack) with the weights of      *)
(* Samples; SpecParse and SpecProfile read texts of up to MaxLines lines.  *)
(***************************************************************************)
MaxMerges == 2
StackLens == 1..2
Names == {<<"a">>, <<"b">>, <<"c">>}
Samples == {0, 3, 5}

\* a stack that repeats one name at three consecutive depths
RepeatedStack == <<<<"a">>, <<"a">>, <<"a">>>>

Stacks == UNION {[1..n -> Names] : n \in StackLens} \cup {RepeatedStack}

MaxLines == 4

(***************************************************************************)
(* Exact fractions.                                                        *)
(***************************************************************************)
Abs(i) == IF i < 0 THEN -i ELSE i

RECURSIVE Gcd(_, _)
Gcd(a, b) == IF b = 0 THEN a ELSE Gcd(b, a % b)

Frac(n, d) ==
    LET g == Gcd(Abs(n), Abs(d))
        s == IF d < 0 THEN -1 ELSE 1
    IN  [num |-> (s * n) \div g, den |-> (s * d) \div g]

Zero == Frac(0, 1)
One == Frac(1, 1)

FAdd(p, q) == Frac(p.num * q.den + q.num * p.den, p.den * q.den)
FLeq(p, q) == p.num * q.den <= q.num * p.den
FLess(p, q) == p.num * q.den < q.num * p.den

RECURSIVE FSum(_)
FSum(s) == IF s = <<>> THEN Zero ELSE FAdd(Head(s), FSum(Tail(s)))

(***************************************************************************)
(* ProfileFrame trees.                                                     *)
(***************************************************************************)
RootId == 1

NewFrame(name) == [name |-> name, value |-> 0, children |-> <<>>, hasChildren |-> TRUE]

FreshRoot == <<NewFrame(<<"r", "o", "o", "t">>)>>

\* mutant: the name is looked up among all the nodes below the root
findChild_Anywhere(ns, current, frame) ==
    LET hits == {i \in 2..Len(ns) : ns[i].name = frame}
    IN  IF hits = {} THEN 0 ELSE CHOOSE i \in hits : \A j \in hits : i <= j

\* current.children?.find(c => c.name === frame): the first match, 0 if none
findChild(ns, current, frame) ==
    LET kids == ns[current].children
        hits == {i \in 1..Len(kids) : ns[kids[i]].name = frame}
    IN  IF ~ns[current].hasChildren \/ hits = {}
        THEN 0
        ELSE kids[CHOOSE i \in hits : \A j \in hits : i <= j]

\* mutant: a child is credited only when it already exists
addFrame_CreditsFoundOnly(ns, current, frame, samples) ==
    LET found == findChild(ns, current, frame)
        child == IF found # 0 THEN found ELSE Len(ns) + 1
    IN  IF found # 0
        THEN <<[ns EXCEPT ![child].value = @ + samples], child>>
        ELSE <<[Append(ns, NewFrame(frame)) EXCEPT
                   ![current].children = Append(@, child),
                   ![current].hasChildren = TRUE], child>>

\* mutant: a child is credited only when it is created
addFrame_CreditsNewOnly(ns, current, frame, samples) ==
    LET found == findChild(ns, current, frame)
        child == IF found # 0 THEN found ELSE Len(ns) + 1
    IN  IF found # 0
        THEN <<ns, child>>
        ELSE <<[Append(ns, NewFrame(frame)) EXCEPT
                   ![current].children = Append(@, child),
                   ![current].hasChildren = TRUE,
                   ![child].value = @ + samples], child>>

\* mutant: a new child is put before its siblings
addFrame_Prepends(ns, current, frame, samples) ==
    LET found == findChild(ns, current, frame)
        child == IF found # 0 THEN found ELSE Len(ns) + 1
        ns1 == IF found # 0
               THEN ns
               ELSE [Append(ns, NewFrame(frame)) EXCEPT
                        ![current].children = <<child>> \o @,
                        ![current].hasChildren = TRUE]
    IN  <<[ns1 EXCEPT ![child].value = @ + samples], child>>

\* one iteration of the loop of addStackToTree: returns <<tree, child>>
addFrame(ns, current, frame, samples) ==
    LET found == findChild(ns, current, frame)
        child == IF found # 0 THEN found ELSE Len(ns) + 1
        ns1 == IF found # 0
               THEN ns
               ELSE [Append(ns, NewFrame(frame)) EXCEPT
                        ![current].children = Append(@, child),
                        ![current].hasChildren = TRUE]
    IN  <<[ns1 EXCEPT ![child].value = @ + samples], child>>

RECURSIVE walkStack(_, _, _, _)
walkStack(ns, current, stack, samples) ==
    IF stack = <<>>
    THEN ns
    ELSE LET r == addFrame(ns, current, Head(stack), samples)
         IN  walkStack(r[1], r[2], Tail(stack), samples)

\* mutant: the root is not credited with the stack's samples
addStackToTree_SkipRoot(ns, stack, samples) == walkStack(ns, RootId, stack, samples)

addStackToTree(ns, stack, samples) ==
    walkStack([ns EXCEPT ![RootId].value = @ + samples], RootId, stack, samples)

\* getMaxDepth(frame, currentDepth)
RECURSIVE getMaxDepth(_, _, _)
getMaxDepth(ns, frame, currentDepth) ==
    IF ~ns[frame].hasChildren \/ ns[frame].children = <<>>
    THEN currentDepth
    ELSE LET kids == ns[frame].children
             ds == {getMaxDepth(ns, kids[i], currentDepth + 1) : i \in 1..Len(kids)}
         IN  CHOOSE d \in ds : \A e \in ds : e <= d

(***************************************************************************)
(* generateDemoProfile: the literal tree demoFlamegraph, in pre-order.     *)
(***************************************************************************)
demoFlamegraph ==
    <<
    [name |-> <<"r", "o", "o", "t">>,
     value |-> 2000, children |-> <<2>>, hasChildren |-> TRUE],
    [name |-> <<"m", "a", "i", "n", ".", "m", "a", "i", "n">>,
     value |-> 2000, children |-> <<3>>, hasChildren |-> TRUE],
    [name |-> <<"m", "a", "i", "n", ".", "r", "u", "n", "I", "n", "e", "f", "f", "i", "c", "i", "e", "n", "t", "l", "y">>,
     value |-> 2000, children |-> <<4, 9, 16, 39, 45, 51, 59, 67, 74, 78>>, hasChildren |-> TRUE],
    [name |-> <<"m", "a", "i", "n", ".", "i", "n", "e", "f", "f", "i", "c", "i", "e", "n", "t", "S", "o", "r", "t">>,
     value |-> 280, children |-> <<5, 7, 8>>, hasChildren |-> TRUE],
    [name |-> <<"m", "a", "i", "n", ".", "b", "u", "b", "b", "l", "e", "S", "o", "r", "t">>,
     value |-> 200, children |-> <<6>>, hasChildren |-> TRUE],
    [name |-> <<"r", "u", "n", "t", "i", "m", "e", ".", "m", "e", "m", "m", "o", "v", "e">>,
     value |-> 80, children |-> <<>>, hasChildren |-> FALSE],
    [name |-> <<"r", "u", "n", "t", "i", "m", "e", ".", "g", "r", "o", "w", "s", "l", "i", "c", "e">>,
     value |-> 60, children |-> <<>>, hasChildren |-> FALSE],
    [name |-> <<"r", "u", "n", "t", "i", "m", "e", ".", "m", "a", "k", "e", "s", "l", "i", "c", "e">>,
     value |-> 20, children |-> <<>>, hasChildren |-> FALSE],
    [name |-> <<"m", "a", "i", "n", ".", "h", "e", "a", "v", "y", "C", "o", "m", "p", "u", "t", "a", "t", "i", "o", "n">>,
     value |-> 320, children |-> <<10, 13, 14, 15>>, hasChildren |-> TRUE],
    [name |-> <<"m", "a", "i", "n", ".", "f", "i", "b", "o", "n", "a", "c", "c", "i">>,
     value |-> 200, children |-> <<11>>, hasChildren |-> TRUE],
    [name |-> <<"m", "a", "i", "n", ".", "f", "i", "b", "o", "n", "a", "c", "c", "i">>,
     value |-> 150, children |-> <<12>>, hasChildren |-> TRUE],
    [name |-> <<"m", "a", "i", "n", ".", "f", "i", "b", "o", "n", "a", "c", "c", "i">>,
     value |-> 100, children |-> <<>>, hasChildren |-> FALSE],
    [name |-> <<"m", "a", "t", "h", ".", "P", "o", "w">>,
     value |-> 60, children |-> <<>>, hasChildren |-> FALSE],
    [name |-> <<"m", "a", "t", "h", ".", "S", "i", "n">>,
     value |-> 30, children |-> <<>>, hasChildren |-> FALSE],
    [name |-> <<"m", "a", "t", "h", ".", "C", "o", "s">>,
     value |-> 30, children |-> <<>>, hasChildren |-> FALSE],
    [name |-> <<"m", "a", "i", "n", ".", "d", "a", "t", "a", "P", "r", "o", "c", "e", "s", "s", "i", "n", "g", "P", "i", "p", "e", "l", "i", "n", "e">>,
     value |-> 400, children |-> <<17, 22, 26, 31, 35>>, hasChildren |-> TRUE],
    [name |-> <<"m", "a", "i", "n", ".", "g", "e", "n", "e", "r", "a", "t", "e", "R", "e", "c", "o", "r", "d", "s">>,
     value |-> 100, children |-> <<18, 19, 21>>, hasChildren |-> TRUE],
    [name |-> <<"m", "a", "i", "n", ".", "g", "e", "n", "e", "r", "a", "t", "e", "R", "a", "n", "d", "o", "m", "S", "t", "r", "i", "n", "g">>,
     value |-> 40, children |-> <<>>, hasChildren |-> FALSE],
    [name |-> <<"m", "a", "i", "n", ".", "g", "e", "n", "e", "r", "a", "t", "e", "M", "e", "t", "a", "d", "a", "t", "a">>,
     value |-> 30, children |-> <<20>>, hasChildren |-> TRUE],
    [name |-> <<"m", "a", "i", "n", ".", "g", "e", "n", "e", "r", "a", "t", "e", "N", "e", "s", "t", "e", "d", "V", "a", "l", "u", "e">>,
     value |-> 20, children |-> <<>>, hasChildren |-> FALSE],
    [name |-> <<"f", "m", "t", ".", "S", "p", "r", "i", "n", "t", "f">>,
     value |-> 30, children |-> <<>>, hasChildren |-> FALSE],
    [name |-> <<"m", "a", "i", "n", ".", "f", "i", "l", "t", "e", "r", "R", "e", "c", "o", "r", "d", "s">>,
     value |-> 80, children |-> <<23, 24, 25>>, hasChildren |-> TRUE],
    [name |-> <<"m", "a", "i", "n", ".", "f", "i", "l", "t", "e", "r", "B", "y", "V", "a", "l", "u", "e">>,
     value |-> 30, children |-> <<>>, hasChildren |-> FALSE],
    [name |-> <<"m", "a", "i", "n", ".", "f", "i", "l", "t", "e", "r", "B", "y", "T", "a", "g", "s">>,
     value |-> 30, children |-> <<>>, hasChildren |-> FALSE],
    [name |-> <<"m", "a", "i", "n", ".", "f", "i", "l", "t", "e", "r", "B", "y", "T", "i", "m", "e">>,
     value |-> 20, children |-> <<>>, hasChildren |-> FALSE],
    [name |-> <<"m", "a", "i", "n", ".", "t", "r", "a", "n", "s", "f", "o", "r", "m", "R", "e", "c", "o", "r", "d", "s">>,
     value |-> 120, children |-> <<27>>, hasChildren |-> TRUE],
    [name |-> <<"m", "a", "i", "n", ".", "t", "r", "a", "n", "s", "f", "o", "r", "m", "S", "i", "n", "g", "l", "e", "R", "e", "c", "o", "r", "d">>,
     value |-> 100, children |-> <<28, 29, 30>>, hasChildren |-> TRUE],
    [name |-> <<"m", "a", "i", "n", ".", "c", "a", "l", "c", "u", "l", "a", "t", "e", "C", "o", "m", "p", "l", "e", "x", "V", "a", "l", "u", "e">>,
     value |-> 50, children |-> <<>>, hasChildren |-> FALSE],
    [name |-> <<"m", "a", "i", "n", ".", "n", "o", "r", "m", "a", "l", "i", "z", "e", "S", "t", "r", "i", "n", "g">>,
     value |-> 30, children |-> <<>>, hasChildren |-> FALSE],
    [name |-> <<"m", "a", "i", "n", ".", "d", "e", "d", "u", "p", "l", "i", "c", "a", "t", "e", "T", "a", "g", "s">>,
     value |-> 20, children |-> <<>>, hasChildren |-> FALSE],
    [name |-> <<"m", "a", "i", "n", ".", "e", "n", "r", "i", "c", "h", "R", "e", "c", "o", "r", "d", "s">>,
     value |-> 60, children |-> <<32, 33, 34>>, hasChildren |-> TRUE],
    [name |-> <<"m", "a", "i", "n", ".", "c", "o", "m", "p", "u", "t", "e", "R", "e", "c", "o", "r", "d", "H", "a", "s", "h">>,
     value |-> 25, children |-> <<>>, hasChildren |-> FALSE],
    [name |-> <<"m", "a", "i", "n", ".", "c", "o", "m", "p", "u", "t", "e", "R", "e", "c", "o", "r", "d", "S", "c", "o", "r", "e">>,
     value |-> 20, children |-> <<>>, hasChildren |-> FALSE],
    [name |-> <<"m", "a", "i", "n", ".", "c", "a", "t", "e", "g", "o", "r", "i", "z", "e", "R", "e", "c", "o", "r", "d">>,
     value |-> 15, children |-> <<>>, hasChildren |-> FALSE],
    [name |-> <<"m", "a", "i", "n", ".", "a", "g", "g", "r", "e", "g", "a", "t", "e", "R", "e", "c", "o", "r", "d", "s">>,
     value |-> 40, children |-> <<36, 37, 38>>, hasChildren |-> TRUE],
    [name |-> <<"m", "a", "i", "n", ".", "a", "g", "g", "r", "e", "g", "a", "t", "e", "S", "t", "d", "D", "e", "v">>,
     value |-> 20, children |-> <<>>, hasChildren |-> FALSE],
    [name |-> <<"m", "a", "i", "n", ".", "a", "g", "g", "r", "e", "g", "a", "t", "e", "A", "v", "g">>,
     value |-> 10, children |-> <<>>, hasChildren |-> FALSE],
    [name |-> <<"m", "a", "i", "n", ".", "a", "g", "g", "r", "e", "g", "a", "t", "e", "S", "u", "m">>,
     value |-> 10, children |-> <<>>, hasChildren |-> FALSE],
    [name |-> <<"m", "a", "i", "n", ".", "c", "r", "y", "p", "t", "o", "O", "p", "e", "r", "a", "t", "i", "o", "n", "s">>,
     value |-> 180, children |-> <<40, 43, 44>>, hasChildren |-> TRUE],
    [name |-> <<"m", "a", "i", "n", ".", "h", "a", "s", "h", "C", "h", "a", "i", "n">>,
     value |-> 100, children |-> <<41, 42>>, hasChildren |-> TRUE],
    [name |-> <<"c", "r", "y", "p", "t", "o", "/", "s", "h", "a", "2", "5", "6", ".", "(", "*", "d", "i", "g", "e", "s", "t", ")", ".", "W", "r", "i", "t", "e">>,
     value |-> 50, children |-> <<>>, hasChildren |-> FALSE],
    [name |-> <<"c", "r", "y", "p", "t", "o", "/", "m", "d", "5", ".", "(", "*", "d", "i", "g", "e", "s", "t", ")", ".", "W", "r", "i", "t", "e">>,
     value |-> 30, children |-> <<>>, hasChildren |-> FALSE],
    [name |-> <<"m", "a", "i", "n", ".", "h", "a", "s", "h", "W", "i", "t", "h", "S", "H", "A", "2", "5", "6">>,
     value |-> 50, children |-> <<>>, hasChildren |-> FALSE],
    [name |-> <<"m", "a", "i", "n", ".", "h", "a", "s", "h", "W", "i", "t", "h", "M", "D", "5">>,
     value |-> 30, children |-> <<>>, hasChildren |-> FALSE],
    [name |-> <<"m", "a", "i", "n", ".", "j", "s", "o", "n", "S", "e", "r", "i", "a", "l", "i", "z", "a", "t", "i", "o", "n", "M", "e", "s", "s">>,
     value |-> 200, children |-> <<46, 48, 50>>, hasChildren |-> TRUE],
    [name |-> <<"e", "n", "c", "o", "d", "i", "n", "g", "/", "j", "s", "o", "n", ".", "M", "a", "r", "s", "h", "a", "l">>,
     value |-> 90, children |-> <<47>>, hasChildren |-> TRUE],
    [name |-> <<"e", "n", "c", "o", "d", "i", "n", "g", "/", "j", "s", "o", "n", ".", "(", "*", "e", "n", "c", "o", "d", "e", "S", "t", "a", "t", "e", ")", ".", "m", "a", "r", "s", "h", "a", "l">>,
     value |-> 70, children |-> <<>>, hasChildren |-> FALSE],
    [name |-> <<"e", "n", "c", "o", "d", "i", "n", "g", "/", "j", "s", "o", "n", ".", "U", "n", "m", "a", "r", "s", "h", "a", "l">>,
     value |-> 80, children |-> <<49>>, hasChildren |-> TRUE],
    [name |-> <<"e", "n", "c", "o", "d", "i", "n", "g", "/", "j", "s", "o", "n", ".", "(", "*", "d", "e", "c", "o", "d", "e", "S", "t", "a", "t", "e", ")", ".", "u", "n", "m", "a", "r", "s", "h", "a", "l">>,
     value |-> 60, children |-> <<>>, hasChildren |-> FALSE],
    [name |-> <<"m", "a", "i", "n", ".", "c", "r", "e", "a", "t", "e", "C", "o", "m", "p", "l", "e", "x", "O", "b", "j", "e", "c", "t">>,
     value |-> 30, children |-> <<>>, hasChildren |-> FALSE],
    [name |-> <<"m", "a", "i", "n", ".", "r", "e", "g", "e", "x", "A", "b", "u", "s", "e">>,
     value |-> 150, children |-> <<52, 55, 57>>, hasChildren |-> TRUE],
    [name |-> <<"m", "a", "i", "n", ".", "f", "i", "n", "d", "E", "m", "a", "i", "l", "s">>,
     value |-> 60, children |-> <<53, 54>>, hasChildren |-> TRUE],
    [name |-> <<"r", "e", "g", "e", "x", "p", ".", "M", "u", "s", "t", "C", "o", "m", "p", "i", "l", "e">>,
     value |-> 40, children |-> <<>>, hasChildren |-> FALSE],
    [name |-> <<"r", "e", "g", "e", "x", "p", ".", "(", "*", "R", "e", "g", "e", "x", "p", ")", ".", "F", "i", "n", "d", "A", "l", "l", "S", "t", "r", "i", "n", "g">>,
     value |-> 20, children |-> <<>>, hasChildren |-> FALSE],
    [name |-> <<"m", "a", "i", "n", ".", "f", "i", "n", "d", "W", "o", "r", "d", "s">>,
     value |-> 50, children |-> <<56>>, hasChildren |-> TRUE],
    [name |-> <<"r", "e", "g", "e", "x", "p", ".", "M", "u", "s", "t", "C", "o", "m", "p", "i", "l", "e">>,
     value |-> 35, children |-> <<>>, hasChildren |-> FALSE],
    [name |-> <<"m", "a", "i", "n", ".", "f", "i", "n", "d", "N", "u", "m", "b", "e", "r", "s">>,
     value |-> 40, children |-> <<58>>, hasChildren |-> TRUE],
    [name |-> <<"r", "e", "g", "e", "x", "p", ".", "M", "u", "s", "t", "C", "o", "m", "p", "i", "l", "e">>,
     value |-> 25, children |-> <<>>, hasChildren |-> FALSE],
    [name |-> <<"m", "a", "i", "n", ".", "c", "o", "n", "c", "u", "r", "r", "e", "n", "c", "y", "O", "v", "e", "r", "h", "e", "a", "d">>,
     value |-> 170, children |-> <<60, 64, 65, 66>>, hasChildren |-> TRUE],
    [name |-> <<"m", "a", "i", "n", ".", "m", "u", "t", "e", "x", "C", "o", "n", "t", "e", "n", "t", "i", "o", "n">>,
     value |-> 80, children |-> <<61, 62, 63>>, hasChildren |-> TRUE],
    [name |-> <<"s", "y", "n", "c", ".", "(", "*", "M", "u", "t", "e", "x", ")", ".", "L", "o", "c", "k">>,
     value |-> 40, children |-> <<>>, hasChildren |-> FALSE],
    [name |-> <<"s", "y", "n", "c", ".", "(", "*", "M", "u", "t", "e", "x", ")", ".", "U", "n", "l", "o", "c", "k">>,
     value |-> 20, children |-> <<>>, hasChildren |-> FALSE],
    [name |-> <<"r", "u", "n", "t", "i", "m", "e", ".", "n", "e", "w", "p", "r", "o", "c">>,
     value |-> 20, children |-> <<>>, hasChildren |-> FALSE],
    [name |-> <<"r", "u", "n", "t", "i", "m", "e", ".", "n", "e", "w", "p", "r", "o", "c">>,
     value |-> 50, children |-> <<>>, hasChildren |-> FALSE],
    [name |-> <<"r", "u", "n", "t", "i", "m", "e", ".", "c", "h", "a", "n", "r", "e", "c", "v">>,
     value |-> 25, children |-> <<>>, hasChildren |-> FALSE],
    [name |-> <<"r", "u", "n", "t", "i", "m", "e", ".", "c", "h", "a", "n", "s", "e", "n", "d">>,
     value |-> 15, children |-> <<>>, hasChildren |-> FALSE],
    [name |-> <<"m", "a", "i", "n", ".", "r", "e", "c", "u", "r", "s", "i", "v", "e", "D", "a", "t", "a", "S", "t", "r", "u", "c", "t", "u", "r", "e", "s">>,
     value |-> 160, children |-> <<68, 71, 72, 73>>, hasChildren |-> TRUE],
    [name |-> <<"m", "a", "i", "n", ".", "b", "u", "i", "l", "d", "T", "r", "e", "e">>,
     value |-> 60, children |-> <<69>>, hasChildren |-> TRUE],
    [name |-> <<"m", "a", "i", "n", ".", "b", "u", "i", "l", "d", "T", "r", "e", "e">>,
     value |-> 40, children |-> <<70>>, hasChildren |-> TRUE],
    [name |-> <<"m", "a", "i", "n", ".", "b", "u", "i", "l", "d", "T", "r", "e", "e">>,
     value |-> 25, children |-> <<>>, hasChildren |-> FALSE],
    [name |-> <<"m", "a", "i", "n", ".", "t", "r", "a", "v", "e", "r", "s", "e", "T", "r", "e", "e">>,
     value |-> 40, children |-> <<>>, hasChildren |-> FALSE],
    [name |-> <<"m", "a", "i", "n", ".", "s", "u", "m", "T", "r", "e", "e">>,
     value |-> 35, children |-> <<>>, hasChildren |-> FALSE],
    [name |-> <<"m", "a", "i", "n", ".", "f", "i", "n", "d", "I", "n", "T", "r", "e", "e">>,
     value |-> 25, children |-> <<>>, hasChildren |-> FALSE],
    [name |-> <<"m", "a", "i", "n", ".", "m", "e", "m", "o", "r", "y", "W", "a", "s", "t", "e", "r">>,
     value |-> 100, children |-> <<75, 76, 77>>, hasChildren |-> TRUE],
    [name |-> <<"r", "u", "n", "t", "i", "m", "e", ".", "m", "a", "l", "l", "o", "c", "g", "c">>,
     value |-> 60, children |-> <<>>, hasChildren |-> FALSE],
    [name |-> <<"r", "u", "n", "t", "i", "m", "e", ".", "g", "r", "o", "w", "s", "l", "i", "c", "e">>,
     value |-> 25, children |-> <<>>, hasChildren |-> FALSE],
    [name |-> <<"f", "m", "t", ".", "S", "p", "r", "i", "n", "t", "f">>,
     value |-> 15, children |-> <<>>, hasChildren |-> FALSE],
    [name |-> <<"m", "a", "i", "n", ".", "s", "t", "r", "i", "n", "g", "C", "o", "n", "c", "a", "t", "W", "a", "s", "t", "e">>,
     value |-> 40, children |-> <<79, 80>>, hasChildren |-> TRUE],
    [name |-> <<"r", "u", "n", "t", "i", "m", "e", ".", "c", "o", "n", "c", "a", "t", "s", "t", "r", "i", "n", "g", "s">>,
     value |-> 25, children |-> <<>>, hasChildren |-> FALSE],
    [name |-> <<"r", "u", "n", "t", "i", "m", "e", ".", "s", "l", "i", "c", "e", "b", "y", "t", "e", "t", "o", "s", "t", "r", "i", "n", "g">>,
     value |-> 15, children |-> <<>>, hasChildren |-> FALSE]
    >>

(***************************************************************************)
(* Flame layout.                                                           *)
(***************************************************************************)
RECURSIVE SumValues(_, _)
SumValues(ns, kids) ==
    IF kids = <<>> THEN 0 ELSE ns[Head(kids)].value + SumValues(ns, Tail(kids))

\* frame.children.reduce((sum, c) => sum + c.value, 0)
totalChildValue(ns, frame) == SumValues(ns, ns[frame].children)

\* mutant: the share is taken of one more than the children's total
childWidth_OffByOne(parentWidth, value, total) ==
    Frac(parentWidth.num * value, parentWidth.den * (total + 1))

\* mutant: with a zero total every child is given the whole span
childWidth_WholeSpan(parentWidth, value, total) ==
    IF total = 0
    THEN parentWidth
    ELSE Frac(parentWidth.num * value, parentWidth.den * total)

\* parentWidth * (child.value / (totalChildValue || 1))
childWidth(parentWidth, value, total) ==
    LET t == IF total = 0 THEN 1 ELSE total
    IN  Frac(parentWidth.num * value, parentWidth.den * t)

RECURSIVE traverse(_, _, _, _, _)
RECURSIVE traverseChildren(_, _, _, _, _, _)

\* mutant: the cursor advances by the parent's width
traverseChildren_WideStep(ns, frame, i, depth, childX, parentWidth) ==
    LET kids == ns[frame].children
    IN  IF i > Len(kids)
        THEN <<>>
        ELSE LET w == childWidth(parentWidth, ns[kids[i]].value, totalChildValue(ns, frame))
             IN  traverse(ns, kids[i], depth + 1, childX, w)
                 \o traverseChildren(ns, frame, i + 1, depth, FAdd(childX, parentWidth), parentWidth)

\* mutant: the cursor is never advanced
traverseChildren_NoStep(ns, frame, i, depth, childX, parentWidth) ==
    LET kids == ns[frame].children
    IN  IF i > Len(kids)
        THEN <<>>
        ELSE LET w == childWidth(parentWidth, ns[kids[i]].value, totalChildValue(ns, frame))
             IN  traverse(ns, kids[i], depth + 1, childX, w)
                 \o traverseChildren(ns, frame, i + 1, depth, childX, parentWidth)

\* the for-loop over frame.children, from the i-th child on, cursor at childX
traverseChildren(ns, frame, i, depth, childX, parentWidth) ==
    LET kids == ns[frame].children
    IN  IF i > Len(kids)
        THEN <<>>
        ELSE LET w == childWidth(parentWidth, ns[kids[i]].value, totalChildValue(ns, frame))
             IN  traverse(ns, kids[i], depth + 1, childX, w)
                 \o traverseChildren(ns, frame, i + 1, depth, FAdd(childX, w), parentWidth)

\* mutant: a frame is emitted after its children
traverse_PostOrder(ns, frame, depth, x, parentWidth) ==
    (IF ns[frame].hasChildren
     THEN traverseChildren(ns, frame, 1, depth, x, parentWidth)
     ELSE <<>>)
    \o <<[frame |-> frame, depth |-> depth, x |-> x, width |-> parentWidth]>>

traverse(ns, frame, depth, x, parentWidth) ==
    <<[frame |-> frame, depth |-> depth, x |-> x, width |-> parentWidth]>>
    \o (IF ns[frame].hasChildren
        THEN traverseChildren(ns, frame, 1, depth, x, parentWidth)
        ELSE <<>>)

flattenFrames(ns) == traverse(ns, RootId, 0, Zero, One)

(***************************************************************************)
(* Strings are sequences of one-character strings.                         *)
(***************************************************************************)
Digits == {"0", "1", "2", "3", "4", "5", "6", "7", "8", "9"}
Spaces == {" ", "\t"}
Newline == "\n"

DigitValue(c) ==
    CASE c = "0" -> 0 [] c = "1" -> 1 [] c = "2" -> 2 [] c = "3" -> 3 [] c = "4" -> 4
      [] c = "5" -> 5 [] c = "6" -> 6 [] c = "7" -> 7 [] c = "8" -> 8 [] c = "9" -> 9

Min(S) == CHOOSE m \in S : \A n \in S : m <= n
Max(S) == CHOOSE m \in S : \A n \in S : n <= m

\* tracesOutput.split("\n")
RECURSIVE split(_)
split(s) ==
    LET nl == {i \in 1..Len(s) : s[i] = Newline}
    IN  IF nl = {}
        THEN <<s>>
        ELSE <<SubSeq(s, 1, Min(nl) - 1)>> \o split(SubSeq(s, Min(nl) + 1, Len(s)))

\* line.trim()
trim(s) ==
    LET ink == {i \in 1..Len(s) : s[i] \notin Spaces}
    IN  IF ink = {} THEN <<>> ELSE SubSeq(s, Min(ink), Max(ink))

\* trimmed.startsWith(prefix)
startsWith(s, prefix) ==
    Len(s) >= Len(prefix) /\ SubSeq(s, 1, Len(prefix)) = prefix

\* parseInt(digits, 10) of a non-empty run of digits
RECURSIVE parseInt(_)
parseInt(ds) ==
    IF ds = <<>> THEN 0
    ELSE 10 * parseInt(SubSeq(ds, 1, Len(ds) - 1)) + DigitValue(ds[Len(ds)])

\* the end of the longest run of characters of class cls that starts at from
\* (from - 1 when s[from] is not in cls)
RunEnd(s, from, cls) ==
    LET stops == {i \in from..Len(s) : s[i] \notin cls}
    IN  IF stops = {} THEN Len(s) ELSE Min(stops) - 1

\* trimmed.match(/^\s*(\d+)\s+[\d.]+[^\s]*\s*$/): <<capture>> or <<>> (null).
\* Each greedy run is followed by a character outside its class, so the
\* match, when there is one, takes the maximal runs.
sampleMatch(s) ==
    LET a == RunEnd(s, 1, Spaces)             \* ^\s*
        b == RunEnd(s, a + 1, Digits)         \* (\d+)
        c == RunEnd(s, b + 1, Spaces)         \* \s+
        nonSpaceEnd ==
            LET sp == {i \in (c + 1)..Len(s) : s[i] \in Spaces}
            IN  IF sp = {} THEN Len(s) ELSE Min(sp) - 1     \* [\d.]+[^\s]*
        e == RunEnd(s, nonSpaceEnd + 1, Spaces)             \* \s*$
    IN  IF /\ b > a
           /\ c > b
           /\ c < Len(s)
           /\ s[c + 1] \in Digits \cup {"."}
           /\ e = Len(s)
        THEN <<SubSeq(s, a + 1, b)>>
        ELSE <<>>

\* trimmed.match(/^#\d+\s+[\dx]+\s+(.+?)\s+.+$/): <<capture>> or <<>> (null).
\* "#", \d+, \s+ and [\dx]+ are forced to their maximal runs; the \s+ before
\* the capture is greedy and gives back whitespace only when the rest cannot
\* match; the capture is lazy, ending before the first whitespace that still
\* leaves a character for the final .+
funcMatch(s) ==
    LET b == RunEnd(s, 2, Digits)                   \* #\d+
        c == RunEnd(s, b + 1, Spaces)               \* \s+
        d == RunEnd(s, c + 1, Digits \cup {"x"})    \* [\dx]+
        e == RunEnd(s, d + 1, Spaces)               \* \s+ at its longest
        \* capture starting at position from: the positions where it can end
        ends(from) == {m \in from..(Len(s) - 2) : s[m + 1] \in Spaces}
        starts == {f \in (d + 2)..(e + 1) : ends(f) # {}}
    IN  IF /\ Len(s) >= 1
           /\ s[1] = "#"
           /\ b >= 2
           /\ c > b
           /\ d > c
           /\ e > d
           /\ starts # {}
        THEN LET f == Max(starts) IN <<SubSeq(s, f, Min(ends(f)))>>
        ELSE <<>>

\* trimmed.split(/\s+/)[0] of a non-empty trimmed line
firstToken(s) == SubSeq(s, 1, RunEnd(s, 1, {s[i] : i \in 1..Len(s)} \ Spaces))

\* simpleName.match(/^[\d.]+[^\s]*$/): a token never holds whitespace
looksNumeric(tok) == tok # <<>> /\ tok[1] \in Digits \cup {"."}

RECURSIVE Reverse(_)
Reverse(s) == IF s = <<>> THEN <<>> ELSE Append(Reverse(Tail(s)), Head(s))

(***************************************************************************)
(* parseTracesOutput.  The loop state is a record                          *)
(* [nodes, merged, currentStack, currentSamples].                          *)
(***************************************************************************)
ParserStart ==
    [nodes |-> FreshRoot, merged |-> <<>>, currentStack |-> <<>>, currentSamples |-> 1]

\* mutant: the stack is merged in reading order, leaf first
flush_NoReverse(st) ==
    LET stack == st.currentStack
    IN  [st EXCEPT
            !.nodes = addStackToTree(st.nodes, stack, st.currentSamples),
            !.merged = Append(@, [stack |-> stack, samples |-> st.currentSamples])]

\* addStackToTree(root, currentStack.reverse(), currentSamples)
flush(st) ==
    LET stack == Reverse(st.currentStack)
    IN  [st EXCEPT
            !.nodes = addStackToTree(st.nodes, stack, st.currentSamples),
            !.merged = Append(@, [stack |-> stack, samples |-> st.currentSamples])]

isBoundary(trimmed) == startsWith(trimmed, <<"-", "-", "-">>) \/ trimmed = <<>>

\* mutant: a line that begins with "#" gives its first token too
frameName_HashAllowed(trimmed) ==
    IF funcMatch(trimmed) # <<>>
    THEN funcMatch(trimmed)
    ELSE IF trimmed # <<>>
         THEN LET simpleName == firstToken(trimmed)
              IN  IF simpleName # <<>> /\ ~looksNumeric(simpleName)
                  THEN <<simpleName>>
                  ELSE <<>>
         ELSE <<>>

\* the name a frame line pushes on currentStack: <<name>>, or <<>> for none
frameName(trimmed) ==
    IF funcMatch(trimmed) # <<>>
    THEN funcMatch(trimmed)
    ELSE IF trimmed # <<>> /\ ~startsWith(trimmed, <<"#">>)
         THEN LET simpleName == firstToken(trimmed)
              IN  IF simpleName # <<>> /\ ~looksNumeric(simpleName)
                  THEN <<simpleName>>
                  ELSE <<>>
         ELSE <<>>

\* mutant: the weight is kept after a flush
consume_KeepsSamples(st, line) ==
    LET trimmed == trim(line)
    IN  IF isBoundary(trimmed)
        THEN IF st.currentStack # <<>>
             THEN [flush(st) EXCEPT !.currentStack = <<>>]
             ELSE st
        ELSE IF sampleMatch(trimmed) # <<>>
             THEN [st EXCEPT !.currentSamples = parseInt(sampleMatch(trimmed)[1])]
             ELSE [st EXCEPT !.currentStack = @ \o frameName(trimmed)]

\* mutant: a boundary resets the weight even when it flushes nothing
consume_AlwaysResets(st, line) ==
    LET trimmed == trim(line)
    IN  IF isBoundary(trimmed)
        THEN IF st.currentStack # <<>>
             THEN [flush(st) EXCEPT !.currentStack = <<>>, !.currentSamples = 1]
             ELSE [st EXCEPT !.currentSamples = 1]
        ELSE IF sampleMatch(trimmed) # <<>>
             THEN [st EXCEPT !.currentSamples = parseInt(sampleMatch(trimmed)[1])]
             ELSE [st EXCEPT !.currentStack = @ \o frameName(trimmed)]

\* the body of the for-loop, for one line
consume(st, line) ==
    LET trimmed == trim(line)
    IN  IF isBoundary(trimmed)
        THEN IF st.currentStack # <<>>
             THEN [flush(st) EXCEPT !.currentStack = <<>>, !.currentSamples = 1]
             ELSE st
        ELSE IF sampleMatch(trimmed) # <<>>
             THEN [st EXCEPT !.currentSamples = parseInt(sampleMatch(trimmed)[1])]
             ELSE [st EXCEPT !.currentStack = @ \o frameName(trimmed)]

\* mutant: the last stack is merged even when it is empty
finish_Unguarded(st) == flush(st)

\* mutant: a stack still pending at the end of the input is dropped
finish_DropsLast(st) == st

\* after the loop: "Handle last stack"
finish(st) == IF st.currentStack # <<>> THEN flush(st) ELSE st

RECURSIVE consumeAll(_, _)
consumeAll(st, ls) ==
    IF ls = <<>> THEN st ELSE consumeAll(consume(st, Head(ls)), Tail(ls))

\* the returned root, as the tree it heads
parseTracesOutput(tracesOutput) ==
    finish(consumeAll(ParserStart, split(tracesOutput))).nodes

(***************************************************************************)
(* Spec: stacks are merged into a fresh root, then the tree is laid out.   *)
(***************************************************************************)
NoResult == [returned |-> FALSE]
NoToolResult == [responded |-> FALSE]
Absent == [present |-> FALSE, value |-> <<>>]
NoPick == [picked |-> FALSE]

\* null / undefined, and a value that is neither
Null == [isNull |-> TRUE]
Some(v) == [isNull |-> FALSE, value |-> v]

\* the variables of the UIs before any of them is mounted
UiIdle ==
    /\ app = "none"
    /\ received = Null
    /\ data = Null
    /\ errorMsg = Null
    /\ displayUnits = "metric"
    /\ pickerHex = 0
    /\ recentColours = <<>>
    /\ confirmed = <<>>

\* the variables of SpecTwo, SpecColour and the UIs while they are idle
RestIdle ==
    /\ UiIdle
    /\ requests = <<>>
    /\ tmp = {}
    /\ clock = 0
    /\ running = 0
    /\ allocated = 0
    /\ initialColour = Absent
    /\ picked = NoPick

ProfilerIdle ==
    /\ appPath = <<>>
    /\ toolResult = NoToolResult
    /\ profileType = "cpu"
    /\ topOutput = <<>>
    /\ topFunctions = <<>>
    /\ totalSamples = 0
    /\ files = {}
    /\ execs = <<>>
    /\ result = NoResult

ParserIdle ==
    /\ text = <<>>
    /\ lines = <<>>
    /\ lineNo = 0
    /\ currentStack = <<>>
    /\ currentSamples = 1

Init ==
    /\ nodes = FreshRoot
    /\ merged = <<>>
    /\ flat = <<>>
    /\ pc = "build"
    /\ ParserIdle
    /\ ProfilerIdle
    /\ RestIdle

AddStack(stack, samples) ==
    /\ pc = "build"
    /\ Len(merged) < MaxMerges
    /\ nodes' = addStackToTree(nodes, stack, samples)
    /\ merged' = Append(merged, [stack |-> stack, samples |-> samples])
    /\ UNCHANGED <<flat, pc, parseVars, profVars, restVars>>

Flatten ==
    /\ pc = "build"
    /\ flat' = flattenFrames(nodes)
    /\ pc' = "laid"
    /\ UNCHANGED <<nodes, merged, parseVars, profVars, restVars>>

Next ==
    \/ \E stack \in Stacks, samples \in Samples : AddStack(stack, samples)
    \/ Flatten

Spec == Init /\ [][Next]_vars

(***************************************************************************)
(* SpecParse: one call of parseTracesOutput, a line of the loop per step.  *)
(* The input is any text of 1..MaxLines lines of LinePool joined by "\n"   *)
(* (the empty text is the single empty line).                              *)
(***************************************************************************)
SampleLine == <<"1", " ", " ", " ", "1", "0", "m", "s">>
ZeroSampleLine == <<"0", " ", "5", "m", "s">>
FooLine ==
    <<"#", "0", " ", "0", "x", "1", "2", "3", "4", " ",
      "m", "a", "i", "n", ".", "f", "o", "o", " ", "+", "0", "x", "1", "0">>
BarLine ==
    <<"#", "1", " ", "0", "x", "5", "6", "7", "8", " ",
      "m", "a", "i", "n", ".", "b", "a", "r", " ", "+", "0", "x", "2", "0">>
PlainLine == <<" ", " ", "r", "u", "n", "\t", "g", "o">>
HashLine == <<"#", "2", " ", "r", "u", "n">>
NumberLine == <<"1", "0", "m", "s">>
DashLine == <<"-", "-", "-">>
EmptyLine == <<>>

LinePool ==
    {SampleLine, ZeroSampleLine, FooLine, BarLine, PlainLine, HashLine,
     NumberLine, DashLine, EmptyLine}

RECURSIVE join(_)
join(ls) ==
    IF Len(ls) = 1 THEN ls[1] ELSE ls[1] \o <<Newline>> \o join(Tail(ls))

Texts == {join(ls) : ls \in UNION {[1..n -> LinePool] : n \in 1..MaxLines}}

LoopState ==
    [nodes |-> nodes, merged |-> merged,
     currentStack |-> currentStack, currentSamples |-> currentSamples]

SetLoopState(st) ==
    /\ nodes' = st.nodes
    /\ merged' = st.merged
    /\ currentStack' = st.currentStack
    /\ currentSamples' = st.currentSamples

InitParse ==
    /\ text \in Texts
    /\ lines = <<>>
    /\ lineNo = 0
    /\ nodes = ParserStart.nodes
    /\ merged = ParserStart.merged
    /\ currentStack = ParserStart.currentStack
    /\ currentSamples = ParserStart.currentSamples
    /\ flat = <<>>
    /\ pc = "start"
    /\ ProfilerIdle
    /\ RestIdle

\* const lines = tracesOutput.split("\n")
SplitLines ==
    /\ pc = "start"
    /\ lines' = split(text)
    /\ lineNo' = 1
    /\ pc' = "parse"
    /\ UNCHANGED <<nodes, merged, flat, text, currentStack, currentSamples, profVars, restVars>>

\* one iteration of  for (const line of lines)
ConsumeLine ==
    /\ pc = "parse"
    /\ lineNo <= Len(lines)
    /\ SetLoopState(consume(LoopState, lines[lineNo]))
    /\ lineNo' = lineNo + 1
    /\ UNCHANGED <<flat, pc, text, lines, profVars, restVars>>

\* the code after the loop, and the return
Finish ==
    /\ pc = "parse"
    /\ lineNo > Len(lines)
    /\ SetLoopState(finish(LoopState))
    /\ pc' = "parsed"
    /\ UNCHANGED <<flat, text, lines, lineNo, profVars, restVars>>

NextParse == SplitLines \/ ConsumeLine \/ Finish

SpecParse == InitParse /\ [][NextParse]_vars

(***************************************************************************)
(* parseTopOutput.  A report is a sequence of rows; a row that the regular *)
(* expression of part_000:209 matches carries its second field (flat%, as  *)
(* parseFloat reads it) and its last field (the function name), any other  *)
(* row is [matches |-> FALSE].                                             *)
(***************************************************************************)
roundSamples_Floor(percentage, total) ==
    (percentage.num * total) \div (100 * percentage.den)

\* Math.round((percentage / 100) * totalSamples), halves rounded up
roundSamples(percentage, total) ==
    (2 * percentage.num * total + 100 * percentage.den) \div (200 * percentage.den)

RECURSIVE topRows(_, _)
topRows(rows, total) ==
    IF rows = <<>> THEN <<>>
    ELSE (IF Head(rows).matches
          THEN <<[name |-> Head(rows).name,
                  percentage |-> Head(rows).percentage,
                  samples |-> roundSamples(Head(rows).percentage, total)]>>
          ELSE <<>>)
         \o topRows(Tail(rows), total)

TopCount == 10

\* results.slice(0, 10)
parseTopOutput(rows, total) ==
    LET results == topRows(rows, total)
    IN  SubSeq(results, 1, IF Len(results) < TopCount THEN Len(results) ELSE TopCount)

(***************************************************************************)
(* generateDemoProfile: the literal list topFunctions and the record       *)
(* returned.  duration is the duration the caller passes, "requested" for  *)
(* the argument of profileGoApp and "actual" for the measured run time; of *)
(* rawProfile the record keeps the profile kind it is labelled with.       *)
(***************************************************************************)
GoExt == <<".", "g", "o">>
Cwd == <<"/", "w">>

\* path.basename(p, ext) for a path that does not end with a slash
basename(p, ext) ==
    LET cut == Max({0} \cup {i \in 1..Len(p) : p[i] = "/"})
        base == SubSeq(p, cut + 1, Len(p))
        n == Len(base) - Len(ext)
    IN  IF n > 0 /\ SubSeq(base, n + 1, Len(base)) = ext
        THEN SubSeq(base, 1, n)
        ELSE base

\* path.resolve(p) for a path without "..", "//" or inner "." segments
resolve(p) ==
    IF p # <<>> /\ p[1] = "/" THEN p
    ELSE IF Len(p) >= 2 /\ SubSeq(p, 1, 2) = <<".", "/">>
         THEN Cwd \o <<"/">> \o SubSeq(p, 3, Len(p))
         ELSE Cwd \o <<"/">> \o p

demoTopFunctions ==
    <<
    [name |-> <<"m", "a", "i", "n", ".", "d", "a", "t", "a", "P", "r", "o", "c", "e", "s", "s", "i", "n", "g", "P", "i", "p", "e", "l", "i", "n", "e">>,
     percentage |-> Frac(20, 1), samples |-> 400],
    [name |-> <<"m", "a", "i", "n", ".", "h", "e", "a", "v", "y", "C", "o", "m", "p", "u", "t", "a", "t", "i", "o", "n">>,
     percentage |-> Frac(16, 1), samples |-> 320],
    [name |-> <<"m", "a", "i", "n", ".", "i", "n", "e", "f", "f", "i", "c", "i", "e", "n", "t", "S", "o", "r", "t">>,
     percentage |-> Frac(14, 1), samples |-> 280],
    [name |-> <<"m", "a", "i", "n", ".", "j", "s", "o", "n", "S", "e", "r", "i", "a", "l", "i", "z", "a", "t", "i", "o", "n", "M", "e", "s", "s">>,
     percentage |-> Frac(10, 1), samples |-> 200],
    [name |-> <<"m", "a", "i", "n", ".", "f", "i", "b", "o", "n", "a", "c", "c", "i">>,
     percentage |-> Frac(10, 1), samples |-> 200],
    [name |-> <<"m", "a", "i", "n", ".", "c", "r", "y", "p", "t", "o", "O", "p", "e", "r", "a", "t", "i", "o", "n", "s">>,
     percentage |-> Frac(9, 1), samples |-> 180],
    [name |-> <<"m", "a", "i", "n", ".", "c", "o", "n", "c", "u", "r", "r", "e", "n", "c", "y", "O", "v", "e", "r", "h", "e", "a", "d">>,
     percentage |-> Frac(17, 2), samples |-> 170],
    [name |-> <<"m", "a", "i", "n", ".", "r", "e", "c", "u", "r", "s", "i", "v", "e", "D", "a", "t", "a", "S", "t", "r", "u", "c", "t", "u", "r", "e", "s">>,
     percentage |-> Frac(8, 1), samples |-> 160],
    [name |-> <<"m", "a", "i", "n", ".", "r", "e", "g", "e", "x", "A", "b", "u", "s", "e">>,
     percentage |-> Frac(15, 2), samples |-> 150],
    [name |-> <<"m", "a", "i", "n", ".", "t", "r", "a", "n", "s", "f", "o", "r", "m", "R", "e", "c", "o", "r", "d", "s">>,
     percentage |-> Frac(6, 1), samples |-> 120]
    >>

DemoSampleCount == 2000

generateDemoProfile_KindScaled(path, duration, kind) ==
    [returned |-> TRUE,
     name |-> basename(path, GoExt),
     kind |-> kind,
     duration |-> duration,
     sampleCount |-> IF kind = "heap" THEN DemoSampleCount \div 2 ELSE DemoSampleCount,
     topFunctions |-> demoTopFunctions,
     flamegraphData |-> demoFlamegraph]

generateDemoProfile(path, duration, kind) ==
    [returned |-> TRUE,
     name |-> basename(path, GoExt),
     kind |-> kind,
     duration |-> duration,
     sampleCount |-> DemoSampleCount,
     topFunctions |-> demoTopFunctions,
     flamegraphData |-> demoFlamegraph]

(***************************************************************************)
(* SpecProfile: one profile-app request, the handler calling profileGoApp. *)
(* Each external command is a step that succeeds or throws (non-zero exit, *)
(* or the timeout where execSync is given one), or never ends where it is  *)
(* given none; what the tools print is drawn at the start from             *)
(* TraceOutputs and TopReports.                                            *)
(***************************************************************************)
AppPaths ==
    { <<".", "/", "m", "a", "i", "n", ".", "g", "o">>,
      <<"s", "r", "v", "/", "a", "p", "i">> }

ProfilePool == {FooLine, PlainLine, EmptyLine}

\* a stack of four frames whose SampleCount line gives it the weight 0
ZeroWeightText == join(<<ZeroSampleLine, FooLine, BarLine, PlainLine, FooLine>>)

TraceOutputs ==
    {join(ls) : ls \in UNION {[1..n -> ProfilePool] : n \in 1..MaxLines}}
        \cup {ZeroWeightText}

NoRow == [matches |-> FALSE]
Row(name, percentage) == [matches |-> TRUE, name |-> name, percentage |-> percentage]

TopReports ==
    { <<>>,
      <<NoRow,
        Row(<<"m", "a", "i", "n", ".", "f", "o", "o">>, Frac(125, 2)),
        Row(<<"m", "a", "i", "n", ".", "b", "a", "r">>, Frac(25, 1))>> }

MinDepth == 4

InitProfile ==
    /\ appPath \in AppPaths
    /\ toolResult = NoToolResult
    /\ RestIdle
    /\ text \in TraceOutputs
    /\ topOutput \in TopReports
    /\ profileType \in {"cpu", "heap"}
    /\ nodes = <<>>
    /\ merged = <<>>
    /\ flat = <<>>
    /\ lines = <<>>
    /\ lineNo = 0
    /\ currentStack = <<>>
    /\ currentSamples = 1
    /\ topFunctions = <<>>
    /\ totalSamples = 0
    /\ files = {}
    /\ execs = <<>>
    /\ result = NoResult
    /\ pc = "go_build"

Exec(cmd, ok) == execs' = Append(execs, [cmd |-> cmd, ok |-> ok])

ReturnDemoRequested_Rethrow ==
    /\ result' = result
    /\ pc' = "thrown"

\* the outer catch: return generateDemoProfile(appPath, duration, profileType)
ReturnDemoRequested ==
    /\ result' = generateDemoProfile(appPath, "requested", profileType)
    /\ pc' = "returned"

\* mutant: the fallback replaces the list and totalSamples, and the tree
\* only when none was parsed
UseDemo_KeepsTree ==
    LET demo == generateDemoProfile(appPath, "actual", profileType)
    IN  /\ nodes' = IF nodes = <<>> THEN demo.flamegraphData ELSE nodes
        /\ totalSamples' = demo.sampleCount
        /\ topFunctions' = demo.topFunctions

\* mutant: the fallback replaces the tree and the list but not totalSamples
UseDemo_KeepsTotal ==
    LET demo == generateDemoProfile(appPath, "actual", profileType)
    IN  /\ nodes' = demo.flamegraphData
        /\ totalSamples' = totalSamples
        /\ topFunctions' = demo.topFunctions

\* const demo = generateDemoProfile(appPath, actualDuration, profileType)
\* and the three assignments from it
UseDemo ==
    LET demo == generateDemoProfile(appPath, "actual", profileType)
    IN  /\ nodes' = demo.flamegraphData
        /\ totalSamples' = demo.sampleCount
        /\ topFunctions' = demo.topFunctions

\* execSync(`go build -o /tmp/${appName} ${resolvedPath}`)
GoBuild(ok) ==
    /\ pc = "go_build"
    /\ Exec("go build", ok)
    /\ IF ok
       THEN /\ files' = files \cup {"binary"}
            /\ pc' = "run"
            /\ UNCHANGED result
       ELSE /\ ReturnDemoRequested
            /\ UNCHANGED files
    /\ UNCHANGED <<nodes, merged, flat, parseVars, profileType, topOutput,
                   topFunctions, totalSamples, appPath, toolResult, restVars>>

\* execSync of the binary with -cpuprofile or -memprofile; wrote tells
\* whether the binary created the profile file before it ended
RunBinary(flag, ok, wrote) ==
    /\ pc = "run"
    /\ flag = (IF profileType = "cpu" THEN "-cpuprofile" ELSE "-memprofile")
    /\ Exec(flag, ok)
    /\ files' = IF wrote THEN files \cup {"profile"} ELSE files
    /\ IF ok
       THEN pc' = "traces" /\ UNCHANGED result
       ELSE ReturnDemoRequested
    /\ UNCHANGED <<nodes, merged, flat, parseVars, profileType, topOutput,
                   topFunctions, totalSamples, appPath, toolResult, restVars>>

\* execSync(`go tool pprof -traces ...`), parseTracesOutput, totalSamples;
\* pprof cannot succeed without the profile file
PprofTraces(ok) ==
    /\ pc = "traces"
    /\ ok => "profile" \in files
    /\ Exec("pprof -traces", ok)
    /\ IF ok
       THEN /\ nodes' = parseTracesOutput(text)
            /\ totalSamples' =
                  IF nodes'[RootId].value = 0 THEN 1 ELSE nodes'[RootId].value
            /\ pc' = "top"
            /\ UNCHANGED topFunctions
       ELSE /\ UseDemo
            /\ pc' = "depth"
    /\ UNCHANGED <<merged, flat, parseVars, profileType, topOutput, files, result,
                   appPath, toolResult, restVars>>

\* execSync(`go tool pprof -top ...`), parseTopOutput
PprofTop(ok) ==
    /\ pc = "top"
    /\ Exec("pprof -top", ok)
    /\ IF ok
       THEN /\ topFunctions' = parseTopOutput(topOutput, totalSamples)
            /\ UNCHANGED <<nodes, totalSamples>>
       ELSE UseDemo
    /\ pc' = "depth"
    /\ UNCHANGED <<merged, flat, parseVars, profileType, topOutput, files, result,
                   appPath, toolResult, restVars>>

\* mutant: a tree of three levels is kept
tooShallow_ThreeLevels(ns) == getMaxDepth(ns, RootId, 0) < MinDepth - 1

\* const maxDepth = getMaxDepth(flamegraphData); if (maxDepth < 4) ...
tooShallow(ns) == getMaxDepth(ns, RootId, 0) < MinDepth

CheckDepth ==
    /\ pc = "depth"
    /\ IF tooShallow(nodes)
       THEN UseDemo
       ELSE UNCHANGED <<nodes, totalSamples, topFunctions>>
    /\ pc' = "unlink_profile"
    /\ UNCHANGED <<merged, flat, parseVars, profileType, topOutput, files, execs,
                   result, appPath, toolResult, restVars>>

\* await fs.unlink(profileFile): throws when the file is not there, which
\* skips the second unlink
UnlinkProfile ==
    /\ pc = "unlink_profile"
    /\ IF "profile" \in files
       THEN files' = files \ {"profile"} /\ pc' = "unlink_binary"
       ELSE UNCHANGED files /\ pc' = "return"
    /\ UNCHANGED <<nodes, merged, flat, parseVars, profileType, topOutput,
                   topFunctions, totalSamples, execs, result, appPath, toolResult,
                   restVars>>

\* await fs.unlink(`/tmp/${appName}`)
UnlinkBinary ==
    /\ pc = "unlink_binary"
    /\ files' = files \ {"binary"}
    /\ pc' = "return"
    /\ UNCHANGED <<nodes, merged, flat, parseVars, profileType, topOutput,
                   topFunctions, totalSamples, execs, result, appPath, toolResult,
                   restVars>>

\* return { name, duration: actualDuration, sampleCount, topFunctions, ... }
Return ==
    /\ pc = "return"
    /\ result' = [returned |-> TRUE,
                  name |-> basename(resolve(appPath), GoExt),
                  kind |-> profileType,
                  duration |-> "actual",
                  sampleCount |-> totalSamples,
                  topFunctions |-> topFunctions,
                  flamegraphData |-> nodes]
    /\ pc' = "returned"
    /\ UNCHANGED <<nodes, merged, flat, parseVars, profileType, topOutput,
                   topFunctions, totalSamples, files, execs, appPath, toolResult,
                   restVars>>

\* execSync without a timeout option returns only when the child exits:
\* go build, pprof -traces and pprof -top are called that way
ExecHangs(cmd) ==
    /\ \/ pc = "go_build" /\ cmd = "go build"
       \/ pc = "traces" /\ cmd = "pprof -traces"
       \/ pc = "top" /\ cmd = "pprof -top"
    /\ pc' = "hung"
    /\ UNCHANGED <<nodes, merged, flat, parseVars, profVars, restVars>>

\* the profile-app handler around  await profileGoApp(...): the result
\* when the promise resolves, isError when it rejects
Respond ==
    /\ pc \in {"returned", "thrown"}
    /\ toolResult' =
          IF pc = "returned"
          THEN [responded |-> TRUE, isError |-> FALSE, structuredContent |-> result]
          ELSE [responded |-> TRUE, isError |-> TRUE, structuredContent |-> NoResult]
    /\ pc' = "responded"
    /\ UNCHANGED <<nodes, merged, flat, parseVars, profileType, topOutput,
                   topFunctions, totalSamples, files, execs, result, appPath,
                   restVars>>

NextProfile ==
    \/ \E ok \in BOOLEAN : GoBuild(ok)
    \/ \E ok, wrote \in BOOLEAN : RunBinary("-cpuprofile", ok, wrote)
    \/ \E ok, wrote \in BOOLEAN : RunBinary("-memprofile", ok, wrote)
    \/ \E ok \in BOOLEAN : PprofTraces(ok)
    \/ \E ok \in BOOLEAN : PprofTop(ok)
    \/ CheckDepth
    \/ UnlinkProfile
    \/ UnlinkBinary
    \/ Return
    \/ \E cmd \in {"go build", "pprof -traces", "pprof -top"} : ExecHangs(cmd)
    \/ Respond

SpecProfile == InitProfile /\ [][NextProfile]_vars

(***************************************************************************)
(* SpecTwo: two profile-app requests served by one process.  JavaScript    *)
(* runs one request at a time on the main thread, and execSync keeps the   *)
(* main thread until the child exits, so a request holds `running` from    *)
(* its first statement to its first await.  fs.unlink is carried out by    *)
(* the thread pool: it takes effect at any time after the call, whatever   *)
(* the main thread is doing, and the awaiting request resumes once the     *)
(* main thread is free.  /tmp is shared: the binary is /tmp/${appName} and *)
(* the profile is /tmp/profile_${Date.now()}.pb.gz.  A command that ends   *)
(* takes at least one tick of the clock.  Each request is given its        *)
(* arguments, what pprof prints for it and the command that fails for it   *)
(* (failAt) at the start; the profile kind is "cpu".  A ProfileFrame tree  *)
(* is kept with the number of objects that existed when it was built       *)
(* (base), so that node i of the tree is object base + i.                  *)
(***************************************************************************)
Requests == {1, 2}
ThreeSampleLine == <<"3", " ", "2", "s">>
DeepText == join(<<FooLine, BarLine, PlainLine, FooLine>>)
HeavyText == join(<<ThreeSampleLine, BarLine, FooLine, PlainLine, BarLine>>)
ShallowText == join(<<FooLine, BarLine>>)
TwoTexts == {DeepText, HeavyText, ShallowText}
TwoReport == CHOOSE report \in TopReports : report # <<>>
Failures == {"none", "go build", "run", "pprof -traces", "pprof -top"}

NoTree == [base |-> 0, nodes |-> <<>>]

Arguments ==
    [appPath : AppPaths, text : TwoTexts, topOutput : {TwoReport}, failAt : Failures]

NewRequest(args) ==
    [pc |-> "idle",
     appPath |-> args.appPath,
     text |-> args.text,
     topOutput |-> args.topOutput,
     failAt |-> args.failAt,
     profileFile |-> 0,
     tree |-> NoTree,
     totalSamples |-> 0,
     topFunctions |-> <<>>,
     result |-> NoResult]

\* a new ProfileFrame object for every node of the tree
allocate(count, arena) == [base |-> count, nodes |-> arena]

appNameOf(q) == basename(resolve(q.appPath), GoExt)

InitTwo ==
    /\ requests \in [Requests -> {NewRequest(args) : args \in Arguments}]
    /\ tmp = [binaries |-> {}, profiles |-> {}]
    /\ clock = 1
    /\ running = 0
    /\ allocated = 0
    /\ nodes = <<>>
    /\ merged = <<>>
    /\ flat = <<>>
    /\ pc = "two"
    /\ ParserIdle
    /\ ProfilerIdle
    /\ initialColour = Absent
    /\ picked = NoPick
    /\ UiIdle

TwoFrame ==
    <<nodes, merged, flat, pc, parseVars, profVars, colourVars, uiVars, recentVars>>

\* the handler is entered: profileFile = `/tmp/profile_${Date.now()}.pb.gz`
StartRequest(r) ==
    /\ requests[r].pc = "idle"
    /\ running = 0
    /\ running' = r
    /\ requests' = [requests EXCEPT ![r].pc = "go_build", ![r].profileFile = clock]
    /\ UNCHANGED <<tmp, clock, allocated, TwoFrame>>

\* the outer catch of request r
demoRequested(q, count) ==
    LET demo == generateDemoProfile(q.appPath, "requested", "cpu")
    IN  [q EXCEPT !.pc = "returned",
                  !.tree = allocate(count, demo.flamegraphData),
                  !.result = demo]

\* the inner catch, and the too shallow branch, of request r
withDemo(q, count) ==
    LET demo == generateDemoProfile(q.appPath, "actual", "cpu")
    IN  [q EXCEPT !.tree = allocate(count, demo.flamegraphData),
                  !.totalSamples = demo.sampleCount,
                  !.topFunctions = demo.topFunctions]

\* lines 97-104, then the call of fs.unlink(profileFile)
depthCheck(q, count) ==
    LET checked == IF tooShallow(q.tree.nodes) THEN withDemo(q, count) ELSE q
    IN  [checked EXCEPT !.pc = "unlink_profile"]

allocatedBy(before, after) ==
    IF after.tree = before.tree THEN 0 ELSE Len(after.tree.nodes)

\* execSync(`go build -o /tmp/${appName} ${resolvedPath}`)
BuildOf(r) ==
    LET q == requests[r]
        ok == q.failAt # "go build"
    IN  /\ running = r
        /\ q.pc = "go_build"
        /\ IF ok
           THEN /\ tmp' = [tmp EXCEPT !.binaries = @ \cup {appNameOf(q)}]
                /\ clock' = clock + 1
                /\ requests' = [requests EXCEPT ![r].pc = "run"]
                /\ UNCHANGED <<running, allocated>>
           ELSE /\ requests' = [requests EXCEPT ![r] = demoRequested(q, allocated)]
                /\ allocated' = allocated + Len(demoFlamegraph)
                /\ running' = 0
                /\ UNCHANGED <<tmp, clock>>
        /\ UNCHANGED TwoFrame

\* execSync(`/tmp/${appName} -cpuprofile=${profileFile} ...`): the shell
\* fails when /tmp/${appName} is not there
RunOf(r) ==
    LET q == requests[r]
        ok == q.failAt # "run" /\ appNameOf(q) \in tmp.binaries
    IN  /\ running = r
        /\ q.pc = "run"
        /\ IF ok
           THEN /\ tmp' = [tmp EXCEPT !.profiles = @ \cup {q.profileFile}]
                /\ clock' = clock + 1
                /\ requests' = [requests EXCEPT ![r].pc = "traces"]
                /\ UNCHANGED <<running, allocated>>
           ELSE /\ requests' = [requests EXCEPT ![r] = demoRequested(q, allocated)]
                /\ allocated' = allocated + Len(demoFlamegraph)
                /\ running' = 0
                /\ UNCHANGED <<tmp, clock>>
        /\ UNCHANGED TwoFrame

\* execSync(`go tool pprof -traces ${profileFile}`), parseTracesOutput;
\* when it throws: the inner catch, the depth check, the call of unlink
TracesOf(r) ==
    LET q == requests[r]
        ok == q.failAt # "pprof -traces" /\ q.profileFile \in tmp.profiles
        parsed == allocate(allocated, parseTracesOutput(q.text))
        value == parsed.nodes[RootId].value
        caught == depthCheck(withDemo(q, allocated), allocated + Len(demoFlamegraph))
    IN  /\ running = r
        /\ q.pc = "traces"
        /\ IF ok
           THEN /\ requests' = [requests EXCEPT ![r].pc = "top",
                                               ![r].tree = parsed,
                                               ![r].totalSamples =
                                                   IF value = 0 THEN 1 ELSE value]
                /\ allocated' = allocated + Len(parsed.nodes)
                /\ clock' = clock + 1
                /\ UNCHANGED running
           ELSE /\ requests' = [requests EXCEPT ![r] = caught]
                /\ allocated' = allocated + Len(demoFlamegraph)
                /\ running' = 0
                /\ UNCHANGED clock
        /\ UNCHANGED <<tmp, TwoFrame>>

\* execSync(`go tool pprof -top ...`), parseTopOutput or the inner catch,
\* the depth check, the call of unlink
TopOf(r) ==
    LET q == requests[r]
        ok == q.failAt # "pprof -top" /\ q.profileFile \in tmp.profiles
        listed == [q EXCEPT !.topFunctions = parseTopOutput(q.topOutput, q.totalSamples)]
        after == IF ok THEN depthCheck(listed, allocated)
                 ELSE depthCheck(withDemo(q, allocated), allocated + Len(demoFlamegraph))
    IN  /\ running = r
        /\ q.pc = "top"
        /\ requests' = [requests EXCEPT ![r] = after]
        /\ allocated' = allocated + allocatedBy(q, after)
        /\ clock' = IF ok THEN clock + 1 ELSE clock
        /\ running' = 0
        /\ UNCHANGED <<tmp, TwoFrame>>

\* the thread pool carries out unlink(profileFile)
UnlinkProfileOf(r) ==
    LET q == requests[r]
    IN  /\ q.pc = "unlink_profile"
        /\ IF q.profileFile \in tmp.profiles
           THEN /\ tmp' = [tmp EXCEPT !.profiles = @ \ {q.profileFile}]
                /\ requests' = [requests EXCEPT ![r].pc = "unlinked_profile"]
           ELSE /\ requests' = [requests EXCEPT ![r].pc = "cleaned"]
                /\ UNCHANGED tmp
        /\ UNCHANGED <<clock, running, allocated, TwoFrame>>

\* the request resumes after the first await and calls unlink(`/tmp/${appName}`)
ResumeOf(r) ==
    /\ requests[r].pc = "unlinked_profile"
    /\ running = 0
    /\ requests' = [requests EXCEPT ![r].pc = "unlink_binary"]
    /\ UNCHANGED <<tmp, clock, running, allocated, TwoFrame>>

\* the thread pool carries out unlink(`/tmp/${appName}`); an error is ignored
UnlinkBinaryOf(r) ==
    LET q == requests[r]
    IN  /\ q.pc = "unlink_binary"
        /\ tmp' = [tmp EXCEPT !.binaries = @ \ {appNameOf(q)}]
        /\ requests' = [requests EXCEPT ![r].pc = "cleaned"]
        /\ UNCHANGED <<clock, running, allocated, TwoFrame>>

\* the request resumes after the cleanup and returns its ProfileData
ReturnOf(r) ==
    LET q == requests[r]
    IN  /\ q.pc = "cleaned"
        /\ running = 0
        /\ requests' =
              [requests EXCEPT ![r].pc = "returned",
                               ![r].result =
                                   [returned |-> TRUE,
                                    name |-> appNameOf(q),
                                    kind |-> "cpu",
                                    duration |-> "actual",
                                    sampleCount |-> q.totalSamples,
                                    topFunctions |-> q.topFunctions,
                                    flamegraphData |-> q.tree.nodes]]
        /\ UNCHANGED <<tmp, clock, running, allocated, TwoFrame>>

NextTwo ==
    \E r \in Requests :
        \/ StartRequest(r)
        \/ BuildOf(r)
        \/ RunOf(r)
        \/ TracesOf(r)
        \/ TopOf(r)
        \/ UnlinkProfileOf(r)
        \/ ResumeOf(r)
        \/ UnlinkBinaryOf(r)
        \/ ReturnOf(r)

SpecTwo == InitTwo /\ [][NextTwo]_vars

(***************************************************************************)
(* SpecColour: one call of the pick-colour tool.  A JavaScript number is   *)
(* [kind, v] with kind "fin" (v an integer), "nan" or "inf"; inside the    *)
(* conversion the finite values are exact fractions, so a product that the *)
(* source's doubles put within rounding error of a half may round to the   *)
(* neighbouring integer there.  Letters are lower case in this model.      *)
(***************************************************************************)
HexChars == <<"0", "1", "2", "3", "4", "5", "6", "7", "8", "9",
              "a", "b", "c", "d", "e", "f">>
HexDigits == {HexChars[i] : i \in 1..Len(HexChars)}
HexValue(c) == (CHOOSE i \in 1..Len(HexChars) : HexChars[i] = c) - 1

NaN == [kind |-> "nan", v |-> 0]
Infinity == [kind |-> "inf", v |-> 0]
Finite(i) == [kind |-> "fin", v |-> i]

DefaultColour == <<"#", "3", "b", "8", "2", "f", "6">>

\* colour.replace("#", ""): the first "#" is removed
replaceHash(s) ==
    LET at == {i \in 1..Len(s) : s[i] = "#"}
    IN  IF at = {} THEN s
        ELSE SubSeq(s, 1, Min(at) - 1) \o SubSeq(s, Min(at) + 1, Len(s))

\* hex.substring(from, to) for 0 <= from <= to, counted from 0
substring(s, from, to) ==
    SubSeq(s, Min({from, Len(s)}) + 1, Min({to, Len(s)}))

RECURSIVE hexNumber(_)
hexNumber(ds) ==
    IF ds = <<>> THEN 0 ELSE 16 * hexNumber(SubSeq(ds, 1, Len(ds) - 1)) + HexValue(ds[Len(ds)])

\* parseInt(s, 16): white space, a sign, "0x", then the longest run of
\* hexadecimal digits; NaN when that run is empty
parseInt16(s) ==
    LET a == RunEnd(s, 1, Spaces) + 1
        signed == a <= Len(s) /\ s[a] \in {"+", "-"}
        b == IF signed THEN a + 1 ELSE a
        prefixed == b + 1 <= Len(s) /\ s[b] = "0" /\ s[b + 1] \in {"x", "X"}
        c == IF prefixed THEN b + 2 ELSE b
        e == RunEnd(s, c, HexDigits)
        n == hexNumber(SubSeq(s, c, e))
    IN  IF e < c THEN NaN
        ELSE Finite(IF signed /\ s[a] = "-" THEN -n ELSE n)

FSub(p, q) == Frac(p.num * q.den - q.num * p.den, p.den * q.den)
FMul(p, q) == Frac(p.num * q.num, p.den * q.den)
FDiv(p, q) == Frac(p.num * q.den, p.den * q.num)

FMax(S) == CHOOSE p \in S : \A q \in S : FLeq(q, p)
FMin(S) == CHOOSE p \in S : \A q \in S : FLeq(p, q)

\* Math.round of a fraction: the nearest integer, halves up
round(p) == Finite((2 * p.num + p.den) \div (2 * p.den))

\* lines 636-659 for numbers r, g, b: the hsl of the result
hslOf(r, g, b) ==
    IF r.kind = "nan" \/ g.kind = "nan" \/ b.kind = "nan"
    THEN \* max, min and l are NaN; max !== min holds, s is NaN, and no
         \* case of the switch matches, so h stays 0
         [h |-> round(Zero), s |-> NaN, l |-> NaN]
    ELSE LET rNorm == Frac(r.v, 255)
             gNorm == Frac(g.v, 255)
             bNorm == Frac(b.v, 255)
             max == FMax({rNorm, gNorm, bNorm})
             min == FMin({rNorm, gNorm, bNorm})
             sum == FAdd(max, min)
             l == FDiv(sum, Frac(2, 1))
             d == FSub(max, min)
             six == Frac(6, 1)
             h == IF max = rNorm
                  THEN FDiv(FAdd(FDiv(FSub(gNorm, bNorm), d),
                                 IF FLess(gNorm, bNorm) THEN six ELSE Zero), six)
                  ELSE IF max = gNorm
                  THEN FDiv(FAdd(FDiv(FSub(bNorm, rNorm), d), Frac(2, 1)), six)
                  ELSE FDiv(FAdd(FDiv(FSub(rNorm, gNorm), d), Frac(4, 1)), six)
         IN  IF max = min
             THEN [h |-> round(Zero), s |-> round(Zero), l |-> round(FMul(l, Frac(100, 1)))]
             ELSE [h |-> round(FMul(h, Frac(360, 1))),
                   s |-> IF FLess(Frac(1, 2), l)
                         THEN round(FMul(FDiv(d, FSub(Frac(2, 1), sum)), Frac(100, 1)))
                         ELSE IF sum = Zero THEN Infinity
                         ELSE round(FMul(FDiv(d, sum), Frac(100, 1))),
                   l |-> round(FMul(l, Frac(100, 1)))]

\* the handler of pick-colour: its structuredContent
pickColour(arg) ==
    LET colour == IF arg.present THEN arg.value ELSE DefaultColour
        hex == replaceHash(colour)
        r == parseInt16(substring(hex, 0, 2))
        g == parseInt16(substring(hex, 2, 4))
        b == parseInt16(substring(hex, 4, 6))
    IN  [picked |-> TRUE,
         hex |-> colour,
         rgb |-> [r |-> r, g |-> g, b |-> b],
         hsl |-> hslOf(r, g, b)]

ColourChars == {"#", "0", "8", "f", "-", "z"}
ShortLens == 0..4
ShortColours == UNION {[1..n -> ColourChars] : n \in ShortLens}
SixChars == [1..6 -> {"0", "8", "f", "-"}]
Colours == ShortColours \cup SixChars \cup {<<"#">> \o six : six \in SixChars}

InitColour ==
    /\ initialColour \in {Absent} \cup {[present |-> TRUE, value |-> c] : c \in Colours}
    /\ picked = NoPick
    /\ UiIdle
    /\ pc = "colour"
    /\ nodes = <<>>
    /\ merged = <<>>
    /\ flat = <<>>
    /\ ParserIdle
    /\ ProfilerIdle
    /\ requests = <<>>
    /\ tmp = {}
    /\ clock = 0
    /\ running = 0
    /\ allocated = 0

PickColour ==
    /\ pc = "colour"
    /\ picked' = pickColour(initialColour)
    /\ pc' = "picked"
    /\ UNCHANGED <<nodes, merged, flat, parseVars, profVars, twoVars, initialColour,
                   uiVars, recentVars>>

NextColour == PickColour

SpecColour == InitColour /\ [][NextColour]_vars

(***************************************************************************)
(* SpecUi: one of the flamegraph, flight and weather UIs.  The host hands  *)
(* a CallToolResult to app.ontoolresult, which stores it in the toolResult *)
(* state of the outer component; the inner component gets it as a prop and *)
(* its effect on [toolResult] runs before anything else happens.  A result *)
(* is [isError, content, structuredContent]: content is absent or a list   *)
(* of items of type "text" or "image", structuredContent is absent or an   *)
(* object.  The three inner components differ in the weather UI's          *)
(* displayUnits only.                                                      *)
(***************************************************************************)
TextItem(t) == [type |-> "text", text |-> t]
ImageItem == [type |-> "image"]

Contents ==
    { Null,
      Some(<<>>),
      Some(<<TextItem("")>>),
      Some(<<TextItem("boom")>>),
      Some(<<ImageItem, TextItem("late")>>) }

Datas == {[id |-> 1, units |-> "metric"], [id |-> 2, units |-> "imperial"]}

ToolResults ==
    [isError : BOOLEAN,
     content : Contents,
     structuredContent : {Null} \cup {Some(d) : d \in Datas}]

\* const text = toolResult.content?.find((c) => c.type === "text");
\* text && "text" in text ? text.text : "An error occurred"
errorText(r) ==
    LET items == IF r.content.isNull THEN <<>> ELSE r.content.value
        hits == {i \in 1..Len(items) : items[i].type = "text"}
    IN  IF hits = {}
        THEN "An error occurred"
        ELSE items[CHOOSE i \in hits : \A j \in hits : i <= j].text

\* the truth value JavaScript gives a string-or-null and an object-or-null
truthyString(x) == ~x.isNull /\ x.value # ""
truthyObject(x) == ~x.isNull

\* what the inner component returns: the three early returns, then <main>
render(d, e) ==
    IF ~truthyObject(d) /\ ~truthyString(e)
    THEN "waiting"
    ELSE IF truthyString(e)
         THEN "error"
         ELSE IF ~truthyObject(d) THEN "null" ELSE "main"

InitUi ==
    /\ app \in {"flame", "flight", "weather"}
    /\ received = Null
    /\ data = Null
    /\ errorMsg = Null
    /\ displayUnits = "metric"
    /\ pickerHex = 0
    /\ recentColours = <<>>
    /\ confirmed = <<>>
    /\ pc = "ui"
    /\ nodes = <<>>
    /\ merged = <<>>
    /\ flat = <<>>
    /\ ParserIdle
    /\ ProfilerIdle
    /\ requests = <<>>
    /\ tmp = {}
    /\ clock = 0
    /\ running = 0
    /\ allocated = 0
    /\ initialColour = Absent
    /\ picked = NoPick

UiFrame ==
    <<nodes, merged, flat, pc, parseVars, profVars, twoVars, colourVars, recentVars>>

\* the body of the effect that the three inner components share
showResult(r) ==
    IF r.isError
    THEN /\ errorMsg' = Some(errorText(r))
         /\ data' = Null
    ELSE IF truthyObject(r.structuredContent)
         THEN /\ data' = r.structuredContent
              /\ errorMsg' = Null
         ELSE UNCHANGED <<data, errorMsg>>

FlameAppInner(r) ==
    /\ app = "flame"
    /\ received' = Some(r)
    /\ showResult(r)
    /\ UNCHANGED <<app, displayUnits, UiFrame>>

FlightAppInner(r) ==
    /\ app = "flight"
    /\ received' = Some(r)
    /\ showResult(r)
    /\ UNCHANGED <<app, displayUnits, UiFrame>>

\* also setDisplayUnits(data.units)
WeatherAppInner(r) ==
    /\ app = "weather"
    /\ received' = Some(r)
    /\ showResult(r)
    /\ displayUnits' = IF ~r.isError /\ truthyObject(r.structuredContent)
                       THEN r.structuredContent.value.units
                       ELSE displayUnits
    /\ UNCHANGED <<app, UiFrame>>

NextUi ==
    \/ \E r \in ToolResults : FlameAppInner(r)
    \/ \E r \in ToolResults : FlightAppInner(r)
    \/ \E r \in ToolResults : WeatherAppInner(r)

SpecUi == InitUi /\ [][NextUi]_vars

(***************************************************************************)
(* SpecRecent: the colour picker UI.  hex is derived from the hsl state,   *)
(* which the palette, the sliders, the hex field and the eye dropper set;  *)
(* handleConfirm puts hex in front of recentColours.  The handlers compare *)
(* colours for equality only, so a colour is named by a number: the        *)
(* colours confirmed so far are 1..k in the order of their first confirm,  *)
(* and k + 1 stands for any colour not confirmed yet (the picker starts    *)
(* with such a colour).  Up to MaxConfirms confirms are followed.          *)
(***************************************************************************)
RecentLimit == 8
MaxConfirms == 9

ConfirmedColours == {confirmed[i] : i \in 1..Len(confirmed)}

InitRecent ==
    /\ pickerHex = 1
    /\ recentColours = <<>>
    /\ confirmed = <<>>
    /\ app = "none"
    /\ received = Null
    /\ data = Null
    /\ errorMsg = Null
    /\ displayUnits = "metric"
    /\ pc = "picker"
    /\ nodes = <<>>
    /\ merged = <<>>
    /\ flat = <<>>
    /\ ParserIdle
    /\ ProfilerIdle
    /\ requests = <<>>
    /\ tmp = {}
    /\ clock = 0
    /\ running = 0
    /\ allocated = 0
    /\ initialColour = Absent
    /\ picked = NoPick

RecentFrame ==
    <<nodes, merged, flat, pc, parseVars, profVars, twoVars, colourVars, uiVars>>

\* setHsl(newHsl), after which hex is the colour selected
SelectColour(colour) ==
    /\ pc = "picker"
    /\ colour # pickerHex
    /\ pickerHex' = colour
    /\ UNCHANGED <<recentColours, confirmed, RecentFrame>>

\* mutant: the list is not cut
addRecent_NoSlice(prev, colour) ==
    <<colour>> \o SelectSeq(prev, LAMBDA c : c # colour)

\* [hex, ...prev.filter((c) => c !== hex)].slice(0, 8)
addRecent(prev, colour) ==
    LET list == <<colour>> \o SelectSeq(prev, LAMBDA c : c # colour)
    IN  SubSeq(list, 1, Min({Len(list), RecentLimit}))

handleConfirm ==
    /\ pc = "picker"
    /\ Len(confirmed) < MaxConfirms
    /\ recentColours' = addRecent(recentColours, pickerHex)
    /\ confirmed' = Append(confirmed, pickerHex)
    /\ UNCHANGED <<pickerHex, RecentFrame>>

NextRecent ==
    \/ \E colour \in 1..(Cardinality(ConfirmedColours) + 1) : SelectColour(colour)
    \/ handleConfirm

SpecRecent == InitRecent /\ [][NextRecent]_vars

(***************************************************************************)
(* Vocabulary of the properties below.                                     *)
(***************************************************************************)
RECURSIVE SumSamples(_)
SumSamples(log) ==
    IF log = <<>> THEN 0 ELSE Head(log).samples + SumSamples(Tail(log))

NodeIds == 1..Len(nodes)
Kids(n) == nodes[n].children
KidSet(n) == {Kids(n)[i] : i \in 1..Len(Kids(n))}
ParentOf(n) == CHOOSE p \in NodeIds : n \in KidSet(p)

RECURSIVE DepthOf(_)
DepthOf(n) == IF n = RootId THEN 0 ELSE 1 + DepthOf(ParentOf(n))

\* the position in flat of the rectangle of node n, and that rectangle
Pos(n) == CHOOSE i \in 1..Len(flat) : flat[i].frame = n
Rect(n) == flat[Pos(n)]
KidWidths(n) == [i \in 1..Len(Kids(n)) |-> Rect(Kids(n)[i]).width]
KidsTotal(n) == SumValues(nodes, Kids(n))
Laid == pc = "laid"

(***************************************************************************)
(* C1: after any sequence of addStackToTree calls on a fresh root, the     *)
(* root's value is the sum of the samples of all the stacks merged.        *)
(***************************************************************************)
C1_RootWeightIsSumOfStacks ==
    nodes[RootId].value = SumSamples(merged)

C1_Witness ==
    /\ Len(merged) = 2
    /\ merged[1].samples = 3
    /\ merged[2].samples = 5
    /\ merged[1].stack # merged[2].stack
    /\ nodes[RootId].value = 8

(***************************************************************************)
(* C2: flattenFrames emits exactly one rectangle per node, in depth-first  *)
(* pre-order (the root first; every other rectangle comes after its        *)
(* parent's, with only deeper-or-equal rectangles of the parent's subtree  *)
(* in between; siblings in insertion order), and the depth of a rectangle  *)
(* is its node's distance from the root.                                   *)
(***************************************************************************)
C2_OneRectanglePerNodeInPreOrder ==
    Laid =>
        /\ Len(flat) = Len(nodes)
        /\ \A n \in NodeIds : Cardinality({i \in 1..Len(flat) : flat[i].frame = n}) = 1
        /\ flat[1].frame = RootId
        /\ \A n \in NodeIds : Rect(n).depth = DepthOf(n)
        /\ \A n \in NodeIds \ {RootId} :
              /\ Pos(ParentOf(n)) < Pos(n)
              /\ \A j \in (Pos(ParentOf(n)) + 1)..(Pos(n) - 1) :
                    flat[j].depth >= Rect(n).depth
        /\ \A p \in NodeIds : \A i, j \in 1..Len(Kids(p)) :
              i < j => Pos(Kids(p)[i]) < Pos(Kids(p)[j])

C2_Witness ==
    /\ Laid
    /\ Len(flat) = 5
    /\ \E i \in 1..Len(flat) : flat[i].depth = 2
    /\ Len(Kids(RootId)) = 2

AllKidsZero(n) == Kids(n) # <<>> /\ \A k \in KidSet(n) : nodes[k].value = 0

C4_AsStated ==
    Laid =>
        \A n \in NodeIds :
            AllKidsZero(n) =>
                /\ \A k1, k2 \in KidSet(n) : Rect(k1).width = Rect(k2).width
                /\ FSum(KidWidths(n)) = Rect(n).width

(***************************************************************************)
(* C4 amended: when all the children of a node have value zero, every      *)
(* child gets width zero and is placed at the node's own x, so the widths  *)
(* sum to zero, whatever the node's width.                                 *)
(***************************************************************************)
C4_ZeroChildrenGetZeroWidth ==
    Laid =>
        \A n \in NodeIds :
            AllKidsZero(n) =>
                /\ \A k \in KidSet(n) : Rect(k).width = Zero /\ Rect(k).x = Rect(n).x
                /\ FSum(KidWidths(n)) = Zero

C4_Witness ==
    /\ Laid
    /\ AllKidsZero(RootId)
    /\ Len(Kids(RootId)) = 2
    /\ Rect(RootId).width = One

(***************************************************************************)
(* C5 as stated: every rectangle has 0 <= x < 1 and x + width <= 1.        *)
(***************************************************************************)
C5_AsStated ==
    Laid =>
        \A i \in 1..Len(flat) :
            /\ FLeq(Zero, flat[i].x)
            /\ FLess(flat[i].x, One)
            /\ FLeq(FAdd(flat[i].x, flat[i].width), One)

(***************************************************************************)
(* C5 amended: every rectangle has 0 <= x <= 1, 0 <= width and             *)
(* x + width <= 1; x = 1 is taken only by rectangles of width zero.        *)
(***************************************************************************)
C5_RectanglesInsideUnitSpan ==
    Laid =>
        \A i \in 1..Len(flat) :
            /\ FLeq(Zero, flat[i].x)
            /\ FLeq(Zero, flat[i].width)
            /\ FLeq(FAdd(flat[i].x, flat[i].width), One)
            /\ (flat[i].x = One => flat[i].width = Zero)

C5_Witness ==
    /\ Laid
    /\ \E i \in 1..Len(flat) :
          /\ flat[i].x = One
          /\ nodes[flat[i].frame].value = 0
          /\ flat[i].depth = 1

(***************************************************************************)
(* C6 as stated: every frame's width is its value's share of the root's    *)
(* value, so a child with a smaller value than its parent is narrower.     *)
(***************************************************************************)
C6_AsStated ==
    (Laid /\ nodes[RootId].value # 0) =>
        \A n \in NodeIds :
            /\ Rect(n).width = Frac(nodes[n].value, nodes[RootId].value)
            /\ (n # RootId /\ nodes[n].value < nodes[ParentOf(n)].value) =>
                  FLess(Rect(n).width, Rect(ParentOf(n)).width)

(***************************************************************************)
(* C7: the children of a node are laid out in insertion order, the first   *)
(* at the node's x and each next one where the previous one ends; when the *)
(* children's values sum to a non-zero total each child's width is the     *)
(* node's width times value / total; sibling spans do not overlap and lie  *)
(* inside the node's span.  Merging [a,b] with 3 and [a,c] with 5 gives    *)
(* root = a = 8, b = 3, c = 5, and b and c get 3/8 and 5/8 of a's span.    *)
(***************************************************************************)
Scenario ==
    merged = << [stack |-> << <<"a">>, <<"b">> >>, samples |-> 3],
                [stack |-> << <<"a">>, <<"c">> >>, samples |-> 5] >>

End(r) == FAdd(r.x, r.width)

MainFoo == <<"m", "a", "i", "n", ".", "f", "o", "o">>
MainBar == <<"m", "a", "i", "n", ".", "b", "a", "r">>
C8Text == join(<<SampleLine, FooLine, BarLine, DashLine>>)

\* the node ids met walking the names of stack down from node n in tree ns
\* (0 where a name has no node)
RECURSIVE PathIds(_, _, _)
PathIds(ns, n, stack) ==
    IF stack = <<>> \/ n = 0
    THEN <<>>
    ELSE LET k == findChild(ns, n, Head(stack))
         IN  <<k>> \o PathIds(ns, k, Tail(stack))

ValueIn(ns, n) == IF n \in 1..Len(ns) THEN ns[n].value ELSE 0

Flushed == Len(merged') = Len(merged) + 1

C8_StackStep ==
    /\ (pc = "parse" /\ ~Flushed /\ currentStack' # currentStack) =>
          /\ Len(currentStack') = Len(currentStack) + 1
          /\ SubSeq(currentStack', 1, Len(currentStack)) = currentStack
          /\ <<currentStack'[Len(currentStack')]>> = frameName(trim(lines[lineNo]))
    /\ Flushed =>
          LET m == merged'[Len(merged')]
              path == PathIds(nodes', RootId, m.stack)
          IN  /\ currentStack # <<>>
              /\ m.samples = currentSamples
              /\ Len(m.stack) = Len(currentStack)
              /\ \A i \in 1..Len(m.stack) :
                    m.stack[i] = currentStack[Len(currentStack) + 1 - i]
              /\ \A i \in 1..Len(path) :
                    /\ path[i] # 0
                    /\ nodes'[path[i]].name = currentStack[Len(currentStack) + 1 - i]
                    /\ nodes'[path[i]].value = ValueIn(nodes, path[i]) + currentSamples
              /\ Len(path) = Len(currentStack)

C8_Example ==
    (text = C8Text /\ pc = "parsed") =>
        /\ merged = <<[stack |-> <<MainBar, MainFoo>>, samples |-> 1]>>
        /\ nodes = << [NewFrame(<<"r", "o", "o", "t">>) EXCEPT !.value = 1, !.children = <<2>>],
                      [NewFrame(MainBar) EXCEPT !.value = 1, !.children = <<3>>],
                      [NewFrame(MainFoo) EXCEPT !.value = 1] >>

C8_ReversedStackIsMerged == [][C8_StackStep]_vars /\ []C8_Example

C8_Witness ==
    /\ text = C8Text
    /\ pc = "parsed"
    /\ Len(merged) = 1
    /\ Len(nodes) = 3

(***************************************************************************)
(* C9: parseTracesOutput returns for every input: the loop is always at a  *)
(* line it can consume or past the last line, where it returns, and it     *)
(* returns only after the last line; for the empty text and for a text     *)
(* with no frame line the returned root has value 0 and no children, and   *)
(* its getMaxDepth is 0.                                                   *)
(***************************************************************************)
IsFrameLine(line) ==
    LET trimmed == trim(line)
    IN  /\ ~isBoundary(trimmed)
        /\ sampleMatch(trimmed) = <<>>
        /\ frameName(trimmed) # <<>>

NoFrameLine == \A i \in 1..Len(lines) : ~IsFrameLine(lines[i])

C9_NoFramesGiveEmptyRoot ==
    /\ pc \in {"start", "parse", "parsed"}
    /\ pc = "parse" => lineNo \in 1..(Len(lines) + 1)
    /\ pc = "parsed" => lineNo = Len(lines) + 1
    /\ (pc = "parsed" /\ NoFrameLine) =>
          /\ Len(nodes) = 1
          /\ nodes[RootId].value = 0
          /\ nodes[RootId].children = <<>>
          /\ getMaxDepth(nodes, RootId, 0) = 0

C9_Witness ==
    /\ pc = "parsed"
    /\ NoFrameLine
    /\ lines = <<SampleLine, HashLine, NumberLine, DashLine>>
    /\ nodes[RootId].value = 0

C9_WitnessEmptyText ==
    /\ pc = "parsed"
    /\ text = <<>>
    /\ nodes[RootId].value = 0

(***************************************************************************)
(* C10 as stated: the returned profile carries the parsed tree exactly     *)
(* when every tool succeeded and the parsed tree's maxDepth, the maximum   *)
(* rectangle depth plus one, is at least 4; it carries the fallback tree   *)
(* exactly when a tool failed, no frame was parsed, or that maxDepth is    *)
(* below 4.                                                                *)
(***************************************************************************)
Returned == pc = "returned"
ParsedTree == parseTracesOutput(text)
AllToolsSucceeded == Len(execs) = 4 /\ \A i \in 1..Len(execs) : execs[i].ok

\* Flamegraph.tsx:114-117: Math.max(...flatFrames.map(f => f.depth)) + 1
rectMaxDepth(ns) ==
    LET fs == flattenFrames(ns)
    IN  Max({fs[i].depth : i \in 1..Len(fs)}) + 1

C10_AsStated ==
    Returned =>
        LET rich == rectMaxDepth(ParsedTree) >= MinDepth
        IN  /\ (result.flamegraphData = ParsedTree) <=> (AllToolsSucceeded /\ rich)
            /\ (result.flamegraphData = demoFlamegraph) <=>
                  (~AllToolsSucceeded \/ Len(ParsedTree) = 1 \/ ~rich)

(***************************************************************************)
(* C11: generateDemoProfile returns the same fixed data whatever its       *)
(* arguments.  Whenever a request has returned fallback data (a command    *)
(* failed, or the parsed tree was too shallow), the returned tree has root *)
(* weight 2000 and the single top-level child main.main of weight 2000,    *)
(* which is also the sum of the top-level weights; sampleCount is 2000;    *)
(* the top list has 10 entries; and tree, sampleCount and list equal those *)
(* generateDemoProfile gives for every other appPath, duration and profile *)
(* kind.  Only name, duration and kind follow the arguments.               *)
(***************************************************************************)
MainMain == <<"m", "a", "i", "n", ".", "m", "a", "i", "n">>
Durations == {"requested", "actual"}
ProfileTypes == {"cpu", "heap"}
SomeToolFailed == \E i \in 1..Len(execs) : ~execs[i].ok
UsedFallback == result.returned /\ (SomeToolFailed \/ tooShallow(ParsedTree))

C11_DemoProfileIsFixed ==
    UsedFallback =>
        LET tree == result.flamegraphData
            kids == tree[RootId].children
        IN  /\ tree[RootId].value = 2000
            /\ Len(kids) = 1
            /\ tree[kids[1]].name = MainMain
            /\ tree[kids[1]].value = 2000
            /\ SumValues(tree, kids) = tree[RootId].value
            /\ result.sampleCount = 2000
            /\ Len(result.topFunctions) = 10
            /\ \A path \in AppPaths, duration \in Durations, kind \in ProfileTypes :
                 LET demo == generateDemoProfile(path, duration, kind)
                 IN  /\ demo.flamegraphData = tree
                     /\ demo.sampleCount = result.sampleCount
                     /\ demo.topFunctions = result.topFunctions
                     /\ demo.name = basename(path, GoExt)
                     /\ demo.duration = duration
                     /\ demo.kind = kind
            /\ result.kind = profileType
            /\ execs[Len(execs)].cmd \in {"go build", "-cpuprofile", "-memprofile"}
                 /\ ~execs[Len(execs)].ok
                 => result = generateDemoProfile(appPath, "requested", profileType)

C11_Witness ==
    /\ pc = "returned"
    /\ profileType = "heap"
    /\ appPath = <<"s", "r", "v", "/", "a", "p", "i">>
    /\ Len(execs) = 2
    /\ ~execs[2].ok
    /\ result.name = <<"a", "p", "i">>
    /\ result.sampleCount = 2000

(***************************************************************************)
(* C12: a profiling request never ends in an error.  profileGoApp never    *)
(* throws; once a command has failed, the profile it returns is complete   *)
(* and carries the fallback tree, the fallback top list and the fallback   *)
(* sample count; and the tool result of the handler is never marked        *)
(* isError and carries the profile returned.                               *)
(***************************************************************************)
C12_FailuresAreAbsorbed ==
    /\ pc # "thrown"
    /\ SomeToolFailed => pc \in {"returned", "responded", "depth", "unlink_profile",
                                 "unlink_binary", "return"}
    /\ (result.returned /\ SomeToolFailed) =>
          /\ result.flamegraphData = demoFlamegraph
          /\ result.topFunctions = demoTopFunctions
          /\ result.sampleCount = DemoSampleCount
          /\ result.kind = profileType
          /\ result.duration \in Durations
          /\ result.name \in {basename(appPath, GoExt), basename(resolve(appPath), GoExt)}
    /\ toolResult.responded =>
          /\ ~toolResult.isError
          /\ toolResult.structuredContent = result
          /\ result.returned

C12_Witness ==
    /\ pc = "responded"
    /\ Len(execs) = 4
    /\ execs[4].cmd = "pprof -top"
    /\ ~execs[4].ok
    /\ Len(ParsedTree) > 1
    /\ ~toolResult.isError
    /\ toolResult.structuredContent.flamegraphData = demoFlamegraph

(***************************************************************************)
(* C13 as stated: every request completes, because every external command  *)
(* is bounded by a timeout: the request is never left waiting for a        *)
(* command that does not end.                                              *)
(***************************************************************************)
C13_AsStated == pc # "hung"

(***************************************************************************)
(* C14 as stated: two interleaved requests are isolated.  Every request    *)
(* that has returned holds the profile it returns when it runs alone (the  *)
(* same tree and the same top list), and the trees built for different     *)
(* requests have no ProfileFrame object in common.                         *)
(***************************************************************************)
\* what profileGoApp returns for the arguments and the tools of q when no
\* other request is served
AloneProfile(q) ==
    IF q.failAt \in {"go build", "run"}
    THEN generateDemoProfile(q.appPath, "requested", "cpu")
    ELSE LET parsed == parseTracesOutput(q.text)
             total == IF parsed[RootId].value = 0 THEN 1 ELSE parsed[RootId].value
             own == q.failAt = "none" /\ ~tooShallow(parsed)
         IN  [returned |-> TRUE,
              name |-> appNameOf(q),
              kind |-> "cpu",
              duration |-> "actual",
              sampleCount |-> IF own THEN total ELSE DemoSampleCount,
              topFunctions |-> IF own THEN parseTopOutput(q.topOutput, total)
                               ELSE demoTopFunctions,
              flamegraphData |-> IF own THEN parsed ELSE demoFlamegraph]

ObjectsOf(tree) == (tree.base + 1)..(tree.base + Len(tree.nodes))

C14_AsStated ==
    /\ \A r \in Requests :
          requests[r].pc = "returned" =>
              /\ requests[r].result.flamegraphData = AloneProfile(requests[r]).flamegraphData
              /\ requests[r].result.topFunctions = AloneProfile(requests[r]).topFunctions
    /\ \A r1, r2 \in Requests :
          r1 # r2 => ObjectsOf(requests[r1].tree) \cap ObjectsOf(requests[r2].tree) = {}

(***************************************************************************)
(* C15 as stated: the top list depends on the top report only.  Two        *)
(* requests that have returned their own parsed trees, with the same       *)
(* pprof -top output and different trees, return the same list of          *)
(* {name, percentage, samples}.                                            *)
(***************************************************************************)
ReturnedOwnTree(r) ==
    /\ requests[r].pc = "returned"
    /\ requests[r].failAt = "none"
    /\ requests[r].result.flamegraphData = parseTracesOutput(requests[r].text)

SameReportOtherTree(r1, r2) ==
    /\ ReturnedOwnTree(r1)
    /\ ReturnedOwnTree(r2)
    /\ requests[r1].topOutput = requests[r2].topOutput
    /\ requests[r1].result.flamegraphData # requests[r2].result.flamegraphData

IsRounded(n, num, den) == 2 * den * n <= 2 * num + den /\ 2 * num + den < 2 * den * (n + 1)

InRange(x, low, high) == x.kind = "fin" /\ low <= x.v /\ x.v <= high

C16_AsStated ==
    picked.picked =>
        /\ InRange(picked.rgb.r, 0, 255)
        /\ InRange(picked.rgb.g, 0, 255)
        /\ InRange(picked.rgb.b, 0, 255)
        /\ InRange(picked.hsl.h, 0, 360)
        /\ InRange(picked.hsl.s, 0, 100)
        /\ InRange(picked.hsl.l, 0, 100)

(***************************************************************************)
(* C17: the weights do not depend on the order of the merges.  Merging the *)
(* stacks merged so far into a fresh root in any other order gives a tree  *)
(* with as many nodes and with the same weight at every name-path (the     *)
(* sequence of names from the root to a node); the trees can differ in the *)
(* order of siblings only.                                                 *)
(***************************************************************************)
RECURSIVE PathsFrom(_, _, _)
PathsFrom(ns, n, path) ==
    {<<path, ns[n].value>>} \cup
    UNION {PathsFrom(ns, ns[n].children[i], Append(path, ns[ns[n].children[i]].name)) :
               i \in 1..Len(ns[n].children)}

PathWeights(ns) == PathsFrom(ns, RootId, <<>>)

RECURSIVE MergeInOrder(_, _, _)
MergeInOrder(log, order, i) ==
    IF i = 0 THEN FreshRoot
    ELSE addStackToTree(MergeInOrder(log, order, i - 1),
                        log[order[i]].stack, log[order[i]].samples)

Orders == Permutations(1..Len(merged))

C17_MergeOrderDoesNotChangeWeights ==
    \A order \in Orders :
        LET other == MergeInOrder(merged, order, Len(merged))
        IN  /\ Len(other) = Len(nodes)
            /\ PathWeights(other) = PathWeights(nodes)
            /\ Cardinality(PathWeights(nodes)) = Len(nodes)

C17_Witness ==
    /\ Len(merged) = 2
    /\ merged[1].stack # merged[2].stack
    /\ merged[1].samples # merged[2].samples
    /\ Len(nodes[RootId].children) = 2
    /\ \E order \in Orders : MergeInOrder(merged, order, Len(merged)) # nodes

(***************************************************************************)
(* C18 as stated: a non-empty line that is no Boundary, no SampleCount     *)
(* line and not of the form "#<index> <address> <name> <location>" pushes  *)
(* its first whitespace-delimited token on the current stack, unless that  *)
(* token looks numeric, and then the line changes nothing; lines that      *)
(* begin with "#" are no exception.                                        *)
(***************************************************************************)
\* the loop consumes the line lines[lineNo] in this step
ConsumeStep == pc = "parse" /\ lineNo <= Len(lines) /\ lineNo' = lineNo + 1

OtherLine(trimmed) ==
    /\ trimmed # <<>>
    /\ ~isBoundary(trimmed)
    /\ sampleMatch(trimmed) = <<>>
    /\ funcMatch(trimmed) = <<>>

C18_TokenStep ==
    (ConsumeStep /\ OtherLine(trim(lines[lineNo]))) =>
        /\ currentStack' =
              IF looksNumeric(firstToken(trim(lines[lineNo])))
              THEN currentStack
              ELSE Append(currentStack, firstToken(trim(lines[lineNo])))
        /\ UNCHANGED <<nodes, merged, currentSamples>>

C18_AsStated == [][C18_TokenStep]_vars

(***************************************************************************)
(* C18, corrected: such a line pushes its first whitespace-delimited token *)
(* unless the token looks numeric or the line begins with "#"; in those    *)
(* two cases the line changes nothing.                                     *)
(***************************************************************************)
C18_TokenStepUnlessHash ==
    (ConsumeStep /\ OtherLine(trim(lines[lineNo]))) =>
        /\ currentStack' =
              IF \/ looksNumeric(firstToken(trim(lines[lineNo])))
                 \/ trim(lines[lineNo])[1] = "#"
              THEN currentStack
              ELSE Append(currentStack, firstToken(trim(lines[lineNo])))
        /\ UNCHANGED <<nodes, merged, currentSamples>>

C18_FirstTokenUnlessNumericOrHash == [][C18_TokenStepUnlessHash]_vars

C18_Witness ==
    /\ pc = "parse"
    /\ lineNo = 4
    /\ lines[1] = HashLine
    /\ lines[2] = PlainLine
    /\ lines[3] = NumberLine
    /\ currentStack = << <<"r", "u", "n">> >>

(***************************************************************************)
(* C19: every flushed stack is merged with the integer of the last         *)
(* SampleCount line consumed since the previous flush, or with 1 when no   *)
(* SampleCount line was consumed since the previous flush.  The weights of *)
(* the merges made so far are those a scan of the consumed lines gives     *)
(* that remembers only whether a frame is pending and the last SampleCount *)
(* since the last flush.                                                   *)
(***************************************************************************)
\* last is <<>> (no SampleCount line since the previous flush) or <<n>>
WeightOf(last) == IF last = <<>> THEN 1 ELSE last[1]

RECURSIVE FlushWeights(_, _, _, _)
FlushWeights(ls, pending, last, atEnd) ==
    IF ls = <<>>
    THEN IF atEnd /\ pending THEN <<WeightOf(last)>> ELSE <<>>
    ELSE LET trimmed == trim(Head(ls))
         IN  IF isBoundary(trimmed)
             THEN IF pending
                  THEN <<WeightOf(last)>> \o FlushWeights(Tail(ls), FALSE, <<>>, atEnd)
                  ELSE FlushWeights(Tail(ls), FALSE, last, atEnd)
             ELSE IF sampleMatch(trimmed) # <<>>
             THEN FlushWeights(Tail(ls), pending,
                               <<parseInt(sampleMatch(trimmed)[1])>>, atEnd)
             ELSE FlushWeights(Tail(ls), pending \/ IsFrameLine(Head(ls)), last, atEnd)

C19_FlushedWithLastSampleCount ==
    pc \in {"parse", "parsed"} =>
        [i \in 1..Len(merged) |-> merged[i].samples]
            = FlushWeights(SubSeq(lines, 1, lineNo - 1), FALSE, <<>>, pc = "parsed")

C19_Witness ==
    /\ pc = "parsed"
    /\ lines = <<ZeroSampleLine, FooLine, EmptyLine, BarLine>>
    /\ Len(merged) = 2
    /\ merged[1].samples = 0
    /\ merged[2].samples = 1

(***************************************************************************)
(* C20 as stated: after the parser has consumed a Boundary line, the       *)
(* accumulated stack is empty and the pending weight is 1, whether or not  *)
(* the boundary flushed a stack.                                           *)
(***************************************************************************)
BoundaryStep == ConsumeStep /\ isBoundary(trim(lines[lineNo]))

C20_ResetStep == BoundaryStep => (currentStack' = <<>> /\ currentSamples' = 1)

C20_AsStated == [][C20_ResetStep]_vars

(***************************************************************************)
(* C20, corrected: after the parser has consumed a Boundary line the       *)
(* accumulated stack is empty; the pending weight is 1 when the boundary   *)
(* flushed a stack, and it is what it was before the line when the stack   *)
(* was empty and nothing was flushed.                                      *)
(***************************************************************************)
C20_ResetOnFlushStep ==
    BoundaryStep =>
        /\ currentStack' = <<>>
        /\ Flushed <=> currentStack # <<>>
        /\ currentSamples' = IF Flushed THEN 1 ELSE currentSamples
        /\ ~Flushed => UNCHANGED <<nodes, merged>>

C20_BoundaryResetsOnlyAfterFlush == [][C20_ResetOnFlushStep]_vars

C20_Witness ==
    /\ pc = "parse"
    /\ lineNo = 3
    /\ sampleMatch(trim(lines[1])) # <<>>
    /\ isBoundary(trim(lines[2]))
    /\ currentStack = <<>>
    /\ currentSamples = 0
    /\ merged = <<>>

(***************************************************************************)
(* C21: the end of the input acts as an implicit boundary.  Parsing a text *)
(* gives the same tree as parsing that text followed by a boundary line    *)
(* (a line of dashes, or an empty line), and every group of frame lines is *)
(* merged exactly once: the stacks merged are, in order, the groups of     *)
(* frame names between boundaries, each reversed.                          *)
(***************************************************************************)
\* the non-empty groups of frame names of the lines ls, in reading order;
\* cur is the group being read
RECURSIVE FrameGroups(_, _)
FrameGroups(ls, cur) ==
    IF ls = <<>>
    THEN IF cur = <<>> THEN <<>> ELSE <<cur>>
    ELSE IF isBoundary(trim(Head(ls)))
         THEN (IF cur = <<>> THEN <<>> ELSE <<cur>>) \o FrameGroups(Tail(ls), <<>>)
         ELSE IF IsFrameLine(Head(ls))
              THEN FrameGroups(Tail(ls), cur \o frameName(trim(Head(ls))))
              ELSE FrameGroups(Tail(ls), cur)

DashBoundary == <<Newline>> \o DashLine
EmptyBoundary == <<Newline>>

C21_EndOfInputIsBoundary ==
    pc = "parsed" =>
        /\ nodes = parseTracesOutput(text \o DashBoundary)
        /\ nodes = parseTracesOutput(text \o EmptyBoundary)
        /\ [i \in 1..Len(merged) |-> merged[i].stack]
               = [i \in 1..Len(FrameGroups(lines, <<>>)) |->
                      Reverse(FrameGroups(lines, <<>>)[i])]

\* a text that ends in a group of frame lines with no boundary after it
C21_Witness ==
    /\ pc = "parsed"
    /\ lines = <<FooLine, EmptyLine, BarLine, FooLine>>
    /\ Len(merged) = 2
    /\ merged[2].stack = Reverse(FrameGroups(lines, <<>>)[2])
    /\ Len(merged[2].stack) = 2

(***************************************************************************)
(* C22: addStackToTree matches a name only against the children of the     *)
(* node reached so far.  After a stack is merged, its names label a chain  *)
(* of pairwise distinct nodes from the root, each the only child of that   *)
(* name of the node before it, and each worth what it was worth before     *)
(* plus the stack's weight once; so a stack that repeats a name at k       *)
(* consecutive depths gives k distinct nodes of that name.                 *)
(***************************************************************************)
KidsNamed(ns, n, name) ==
    {k \in {ns[n].children[i] : i \in 1..Len(ns[n].children)} : ns[k].name = name}

\* the chain of nodes of tree ns that the names of stack label from node n;
\* it stops where a name labels no child, or more than one
RECURSIVE Chain(_, _, _)
Chain(ns, n, stack) ==
    IF stack = <<>> \/ Cardinality(KidsNamed(ns, n, Head(stack))) # 1
    THEN <<>>
    ELSE LET k == CHOOSE c \in KidsNamed(ns, n, Head(stack)) : TRUE
         IN  <<k>> \o Chain(ns, k, Tail(stack))

C22_ChainStep ==
    Flushed =>
        LET m == merged'[Len(merged')]
            before == Chain(nodes, RootId, m.stack)
            after == Chain(nodes', RootId, m.stack)
        IN  /\ Len(after) = Len(m.stack)
            /\ \A i, j \in 1..Len(after) : i # j => after[i] # after[j]
            /\ \A i \in 1..Len(after) :
                  /\ nodes'[after[i]].name = m.stack[i]
                  /\ i <= Len(before) => after[i] = before[i]
                  /\ nodes'[after[i]].value
                        = (IF i <= Len(before) THEN nodes[before[i]].value ELSE 0)
                              + m.samples

C22_RepeatedNameGivesChain == [][C22_ChainStep]_vars

\* [a, a, a] merged with weight 3, then [a, a] with weight 5
C22_Witness ==
    /\ pc = "build"
    /\ merged = <<[stack |-> RepeatedStack, samples |-> 3],
                  [stack |-> <<<<"a">>, <<"a">>>>, samples |-> 5]>>
    /\ Len(nodes) = 4
    /\ \A n \in 2..4 : nodes[n].name = <<"a">>
    /\ nodes[1].children = <<2>> /\ nodes[2].children = <<3>> /\ nodes[3].children = <<4>>
    /\ nodes[2].value = 8 /\ nodes[3].value = 8 /\ nodes[4].value = 3

(***************************************************************************)
(* C23: in every tree built by addStackToTree the children of each node    *)
(* appear in the order in which their names were first seen under that     *)
(* node, and no two children of one node have the same name.               *)
(***************************************************************************)
\* the names from the root down to node n
RECURSIVE PathOf(_)
PathOf(n) == IF n = RootId THEN <<>> ELSE Append(PathOf(ParentOf(n)), nodes[n].name)

IsPrefix(p, s) == Len(p) <= Len(s) /\ SubSeq(s, 1, Len(p)) = p

\* the merges whose stack passes through the path p
SeenAt(p) == {i \in 1..Len(merged) : IsPrefix(p, merged[i].stack)}

\* the first merge that passes through node n
FirstSeen(n) == CHOOSE i \in SeenAt(PathOf(n)) : \A j \in SeenAt(PathOf(n)) : i <= j

C23_ChildrenInFirstSeenOrder ==
    \A n \in NodeIds :
        \A i, j \in 1..Len(Kids(n)) :
            i < j =>
                /\ nodes[Kids(n)[i]].name # nodes[Kids(n)[j]].name
                /\ SeenAt(PathOf(Kids(n)[i])) # {}
                /\ SeenAt(PathOf(Kids(n)[j])) # {}
                /\ FirstSeen(Kids(n)[i]) < FirstSeen(Kids(n)[j])

\* b then a under the root: the children are b, a, not a, b
C23_Witness ==
    /\ Len(merged) = 2
    /\ merged[1].stack = <<<<"b">>>>
    /\ merged[2].stack = <<<<"a">>, <<"b">>>>
    /\ Len(Kids(RootId)) = 2
    /\ nodes[Kids(RootId)[1]].name = <<"b">>
    /\ nodes[Kids(RootId)[2]].name = <<"a">>

(***************************************************************************)
(* C24: in every tree built by addStackToTree from stacks of non-negative  *)
(* weight, the weight of each node is the sum of the weights of the merged *)
(* stacks that have the node's root-path as a prefix, hence at least the   *)
(* sum of the weights of its children.                                     *)
(***************************************************************************)
PassesThrough(n, m) == IsPrefix(PathOf(n), m.stack)

WeightThrough(n) == SumSamples(SelectSeq(merged, LAMBDA m : PassesThrough(n, m)))

C24_WeightIsSumOfStacksThrough ==
    \A n \in NodeIds :
        /\ nodes[n].value = WeightThrough(n)
        /\ nodes[n].value >= KidsTotal(n)

\* [a] with weight 3 and [a, b] with weight 5: a weighs 8, its child b 5
C24_Witness ==
    /\ merged = <<[stack |-> <<<<"a">>>>, samples |-> 3],
                  [stack |-> <<<<"a">>, <<"b">>>>, samples |-> 5]>>
    /\ nodes[2].name = <<"a">>
    /\ nodes[2].value = 8
    /\ KidsTotal(2) = 5
    /\ WeightThrough(3) = 5

(***************************************************************************)
(* C25 as stated: for every profile returned by profileGoApp, sampleCount  *)
(* equals the root weight of the returned flamegraphData.                  *)
(***************************************************************************)
RootWeight(profile) == profile.flamegraphData[RootId].value

C25_AsStated == result.returned => result.sampleCount = RootWeight(result)

(***************************************************************************)
(* C25, corrected: for every profile returned by profileGoApp, sampleCount *)
(* equals the root weight of the returned flamegraphData, except that it   *)
(* is 1 when that weight is 0 (totalSamples = flamegraphData.value || 1).  *)
(***************************************************************************)
C25_SampleCountIsRootWeightOrOne ==
    result.returned =>
        result.sampleCount = (IF RootWeight(result) = 0 THEN 1 ELSE RootWeight(result))

\* a parsed tree of depth 4 whose only stack weighs 0 is returned as it is
C25_Witness ==
    /\ result.returned
    /\ text = ZeroWeightText
    /\ result.flamegraphData = ParsedTree
    /\ RootWeight(result) = 0
    /\ result.sampleCount = 1

(***************************************************************************)
(* C26: the tree and the top-function list of every returned profile come  *)
(* from the same source: both are parsed from what pprof printed, or both  *)
(* are the fallback data.                                                  *)
(***************************************************************************)
ParsedList(count) == parseTopOutput(topOutput, count)

TreeIsParsed == result.flamegraphData = ParsedTree
TreeIsFallback == result.flamegraphData = demoFlamegraph
ListIsParsed == result.topFunctions = ParsedList(result.sampleCount)
ListIsFallback == result.topFunctions = demoTopFunctions

C26_TreeAndListFromSameSource ==
    result.returned =>
        /\ (TreeIsParsed /\ ListIsParsed) \/ (TreeIsFallback /\ ListIsFallback)
        /\ ~(TreeIsParsed /\ ListIsFallback)
        /\ ~(TreeIsFallback /\ ListIsParsed)

\* pprof -traces gave a tree deep enough to keep, then pprof -top failed:
\* the parsed tree is given up together with the list
C26_Witness ==
    /\ result.returned
    /\ ~tooShallow(ParsedTree)
    /\ Len(execs) = 4
    /\ execs[3].ok
    /\ ~execs[4].ok
    /\ TreeIsFallback
    /\ ListIsFallback

(***************************************************************************)
(* C27: every profile returned by profileGoApp carries a tree whose        *)
(* getMaxDepth is at least 4.  The fallback tree itself passes the         *)
(* threshold, so the depth check applied to the fallback tree keeps it.    *)
(***************************************************************************)
DepthOfTree(ns) == getMaxDepth(ns, RootId, 0)

C28_AsStated == result.returned => files = {}

(***************************************************************************)
(* C29 as stated: in the flamegraph, flight and weather UIs, after any     *)
(* tool result the displayed data and the error message are never both     *)
(* set: an isError result clears the data and sets the message, a          *)
(* non-error result with structuredContent sets the data and clears the    *)
(* message, any other result leaves both unchanged; and the view shows     *)
(* "waiting" exactly when neither is set.                                  *)
(***************************************************************************)
IsSet(x) == ~x.isNull

C29_ResultStep ==
    received' # received =>
        LET r == received'.value
        IN  /\ r.isError => (~IsSet(data') /\ IsSet(errorMsg'))
            /\ (~r.isError /\ IsSet(r.structuredContent)) =>
                   (data' = r.structuredContent /\ ~IsSet(errorMsg'))
            /\ (~r.isError /\ ~IsSet(r.structuredContent)) =>
                   (data' = data /\ errorMsg' = errorMsg)
            /\ ~(IsSet(data') /\ IsSet(errorMsg'))
            /\ (render(data', errorMsg') = "waiting")
                   <=> (~IsSet(data') /\ ~IsSet(errorMsg'))

C29_AsStated == [][C29_ResultStep]_vars

(***************************************************************************)
(* C30: in the colour picker, after any sequence of confirm actions the    *)
(* recent-colours list has at most 8 entries, holds no colour twice, and   *)
(* has the most recently confirmed colour first, followed by the earlier   *)
(* ones in most-recent-first order: its colours are in decreasing order of *)
(* their last confirm, and a confirmed colour is missing only when the     *)
(* list is full of colours confirmed after it.                             *)
(***************************************************************************)
LastConfirm(c) == Max({i \in 1..Len(confirmed) : confirmed[i] = c})
RecentSet == {recentColours[i] : i \in 1..Len(recentColours)}

C30_RecentColoursAreLatestEight ==
    /\ Len(recentColours) <= 8
    /\ \A i, j \in 1..Len(recentColours) :
          i < j =>
              /\ recentColours[i] # recentColours[j]
              /\ LastConfirm(recentColours[i]) > LastConfirm(recentColours[j])
    /\ RecentSet \subseteq ConfirmedColours
    /\ confirmed # <<>> => recentColours[1] = confirmed[Len(confirmed)]
    /\ \A c \in ConfirmedColours \ RecentSet :
          /\ Len(recentColours) = 8
          /\ \A d \in RecentSet : LastConfirm(c) < LastConfirm(d)

\* nine colours confirmed one after the other: the first has left the list
C30_Witness ==
    /\ confirmed = <<1, 2, 3, 4, 5, 6, 7, 8, 9>>
    /\ recentColours = <<9, 8, 7, 6, 5, 4, 3, 2>>

====
